---- MODULE Spec2Model ----
(***************************************************************************)
(* Orchestration pipeline of import_v4: the per-item fan-out of            *)
(* run_complete_workflow (process_single_question over                      *)
(* generate_question_and_answer_latex_concurrent), the listing request     *)
(* list_all_questions_direct with its validation-gated re-ask, and the     *)
(* two-branch page annotator list_all_questions_with_pages_direct.         *)
(***************************************************************************)
EXTENDS Integers, Sequences, FiniteSets, TLC

VARIABLES
    stage,                 \* position of run_complete_workflow
    ctrl_error,            \* exception leaving run_complete_workflow, with its origin
    question_list,         \* question_list.questions handed to Step 5
    task,                  \* one process_single_question task per item
    results,               \* value of `results = await asyncio.gather(...)`
    all_questions_results, \* list assembled by the controller
    lst,                   \* the list_all_questions_direct request
    wp,                    \* list_all_questions_with_pages_direct: position, result
    br,                    \* the two annotation branches
    gen,                   \* Phase 1 of one item, with the exchange of each call
    box,                   \* one call of correct_image_bbox
    ledger,                \* one UsageTracker and the calls made on it
    run,                   \* one run of run_complete_workflow, stage by stage
    fm,                    \* one FileManager, its cache file and its client
    val,                   \* one call of validate_question_list_format
    art                    \* the files the item tasks of one batch write

fanVars == <<stage, ctrl_error, question_list, task, results, all_questions_results>>
listVars == <<lst, wp, br>>
fnVars == <<val, art>>
svcVars == <<ledger, run, fm, fnVars>>
unitVars == <<gen, box, svcVars>>
vars == <<stage, ctrl_error, question_list, task, results, all_questions_results,
          lst, wp, br, gen, box, ledger, run, fm, val, art>>

-----------------------------------------------------------------------------
(* Bounds *)

MaxItems == 2
MaxListLen == 2
MaxIterations == 2
MaxAdds == 2
MaxCalls == 4
MaxLabels == 6

-----------------------------------------------------------------------------
(* Values *)

None == [is_none |-> TRUE]
IsNone(x) == "is_none" \in DOMAIN x

\* Labels are character sequences, as the code compares and pattern-matches them.
LabelPool ==
    << <<"1", "(", "a", ")">>, <<"Q", " ", "2">>, <<"1", "(", "a", ")">> >>

PoolLabel(k) == LabelPool[((k - 1) % Len(LabelPool)) + 1]

QuestionMarkups == {"q_tex_1", "q_tex_2"}
AnswerMarkups == {"a_tex_1"}
MarksValues == {5}

\* What one completion request can come back with (clients/base.py contract):
\* the request raises, the content is empty (finish_reason length or stop),
\* the content is not JSON, the JSON does not fit the output schema, or it parses.
FailureKinds == {"exc", "empty_length", "empty_stop", "badjson", "badschema"}

QuestionResponses ==
    [kind : FailureKinds] \cup [kind : {"ok"}, question_latex : QuestionMarkups]

AnswerResponses ==
    [kind : FailureKinds]
        \cup [kind : {"ok"}, answer_latex : AnswerMarkups, marks : MarksValues]

LabelResponses ==
    [kind : FailureKinds] \cup [kind : {"ok"}, topic_id : {7}]

\* get_all_subtopics: a non-empty list, an empty list, or an exception.
SubtopicOutcomes == {"list", "empty", "exc"}

\* Local artifact writing (mkdir, image extraction, json.dump) either works or raises.
IoOutcomes == {"ok", "OSError"}

NoError == [exc |-> "none", at |-> "none"]

-----------------------------------------------------------------------------
(* Phase 1 and Phase 2 completion calls: the body of `for retry in range(max_retries)` *)

max_retries == 2
QuestionMaxTokens == 8000
AnswerMaxTokens == 8000
LabelMaxTokens == 3000

\* Exceptions are recorded by class: json.JSONDecodeError and pydantic's
\* ValidationError are ValueErrors, like the ValueError raised on empty content;
\* whatever client.aquery raises is an APIError.

\* Mutant: the resubmission keeps the allowed size.
Escalate_Same(current_max_tokens) == current_max_tokens

\* int(current_max_tokens * 1.5)
Escalate(current_max_tokens) == (current_max_tokens * 3) \div 2

\* Mutant: one more attempt than max_retries.
QuestionHandle_ExtraAttempt(retry, resp) ==
    CASE resp.kind \in {"exc", "empty_stop", "badschema"} ->
            [do |-> "raise", err |-> IF resp.kind = "exc" THEN "APIError" ELSE "ValueError"]
      [] resp.kind \in {"empty_length", "badjson"} ->
            IF retry < max_retries
            THEN [do |-> "continue", err |-> "none"]
            ELSE [do |-> "raise", err |-> "ValueError"]
      [] resp.kind = "ok" -> [do |-> "return", err |-> "none"]

\* generate_question_latex_direct: what one response does at loop index `retry`.
QuestionHandle(retry, resp) ==
    CASE resp.kind = "exc" -> [do |-> "raise", err |-> "APIError"]
      [] resp.kind = "empty_length" ->
            IF retry < max_retries - 1
            THEN [do |-> "continue", err |-> "none"]
            ELSE [do |-> "raise", err |-> "ValueError"]
      [] resp.kind = "empty_stop" -> [do |-> "raise", err |-> "ValueError"]
      [] resp.kind = "badjson" ->
            IF retry < max_retries - 1
            THEN [do |-> "continue", err |-> "none"]
            ELSE [do |-> "raise", err |-> "ValueError"]
      [] resp.kind = "badschema" -> [do |-> "raise", err |-> "ValueError"]
      [] resp.kind = "ok" -> [do |-> "return", err |-> "none"]

\* generate_answer_latex_direct: the same loop body over AnswerLatexOutput.
AnswerHandle(retry, resp) ==
    CASE resp.kind = "exc" -> [do |-> "raise", err |-> "APIError"]
      [] resp.kind = "empty_length" ->
            IF retry < max_retries - 1
            THEN [do |-> "continue", err |-> "none"]
            ELSE [do |-> "raise", err |-> "ValueError"]
      [] resp.kind = "empty_stop" -> [do |-> "raise", err |-> "ValueError"]
      [] resp.kind = "badjson" ->
            IF retry < max_retries - 1
            THEN [do |-> "continue", err |-> "none"]
            ELSE [do |-> "raise", err |-> "ValueError"]
      [] resp.kind = "badschema" -> [do |-> "raise", err |-> "ValueError"]
      [] resp.kind = "ok" -> [do |-> "return", err |-> "none"]

\* label_question_direct: the same loop body over QuestionLabelOutput.
LabelHandle(retry, resp) ==
    CASE resp.kind = "exc" -> [do |-> "raise", err |-> "APIError"]
      [] resp.kind = "empty_length" ->
            IF retry < max_retries - 1
            THEN [do |-> "continue", err |-> "none"]
            ELSE [do |-> "raise", err |-> "ValueError"]
      [] resp.kind = "empty_stop" -> [do |-> "raise", err |-> "ValueError"]
      [] resp.kind = "badjson" ->
            IF retry < max_retries - 1
            THEN [do |-> "continue", err |-> "none"]
            ELSE [do |-> "raise", err |-> "ValueError"]
      [] resp.kind = "badschema" -> [do |-> "raise", err |-> "ValueError"]
      [] resp.kind = "ok" -> [do |-> "return", err |-> "none"]

\* A coroutine that has not been created yet.
IdleCall == [st |-> "idle", retry |-> 0, max_tokens |-> 0, calls |-> 0,
             out |-> None, err |-> "none"]

IdleLabel == [st |-> "idle", retry |-> 0, max_tokens |-> 0, calls |-> 0,
              args |-> None]

NewTask == [pc |-> "created", q |-> IdleCall, a |-> IdleCall, lab |-> IdleLabel,
            result |-> None]

Items == DOMAIN question_list

-----------------------------------------------------------------------------
(* process_single_question: what one item task hands back *)

\* Mutant: the caller switches labelling off.
enable_labelling_Off == FALSE

\* enable_labelling=True at the call in process_single_question.
enable_labelling == TRUE

\* The dict returned at the end of the try block.
SuccessResult(i, q_latex, a_latex, label_output) ==
    [success |-> TRUE,
     question_index |-> question_list[i].question_index,
     question_label |-> question_list[i].question_label,
     q_latex |-> q_latex,
     a_latex |-> a_latex,
     label |-> label_output]

\* The dict returned by `except Exception as e`.
FailureResult(i, e) ==
    [success |-> FALSE,
     question_index |-> question_list[i].question_index,
     question_label |-> question_list[i].question_label,
     error |-> e]

\* A task that has returned: its coroutine frames (and their locals) are gone,
\* what is left is the value the task resolved to.  lab_st records how its
\* Phase-2 call ended: "idle" (never made), "ok" or "err".
Resolved(lab_st, result) ==
    [NewTask EXCEPT !.pc = "done", !.lab.st = lab_st, !.result = result]

\* Mutant: no handler at the task boundary and a gather that does not collect
\* exceptions: the item's exception leaves the batch and reaches the controller.
ItemRaise_Propagate(i, lab_st, e) ==
    /\ task' = [task EXCEPT ![i] = Resolved(lab_st, FailureResult(i, e))]
    /\ stage' = "Finally"
    /\ ctrl_error' = [exc |-> e, at |-> "item"]

\* `except Exception` at the task boundary: the exception becomes the item's
\* result; nothing reaches the controller or a sibling.
ItemRaise(i, lab_st, e) ==
    /\ task' = [task EXCEPT ![i] = Resolved(lab_st, FailureResult(i, e))]
    /\ UNCHANGED <<stage, ctrl_error>>

\* Post-processing after generate_question_and_answer_latex_concurrent returned:
\* costs, image extraction, the per-question JSON file, then the success dict.
\* Everything here is synchronous, so it runs in the step that resumed the task.
FinishItem(i, lab_st, label_output, io) ==
    IF io = "ok"
    THEN /\ task' = [task EXCEPT ![i] =
                        Resolved(lab_st,
                                 SuccessResult(i, task[i].q.out, task[i].a.out,
                                               label_output))]
         /\ UNCHANGED <<stage, ctrl_error>>
    ELSE ItemRaise(i, lab_st, io)

\* Mutant: the labelling error is re-raised instead of dropped.
LabelFailed_Raise(i, e, io) == ItemRaise(i, "err", e)

\* `except Exception` around Step 2: a labelling error is logged and dropped,
\* label_output stays None and the function returns the Phase-1 outputs.
LabelFailed(i, e, io) == FinishItem(i, "err", None, io)

-----------------------------------------------------------------------------
(* Fan-out: the item tasks *)

\* A task created by asyncio.gather starts: process_single_question runs up to
\* the inner gather, which creates the two Phase-1 coroutines.
StartItem(i) ==
    /\ stage = "FanningOut"
    /\ task[i].pc = "created"
    /\ task' = [task EXCEPT ![i].pc = "phase1",
                            ![i].q.st = "ready",
                            ![i].a.st = "ready"]
    /\ UNCHANGED <<stage, ctrl_error, question_list, results, all_questions_results>>
    /\ UNCHANGED <<listVars, unitVars>>

\* generate_question_latex_direct runs to its first client.aquery.
QuestionStart(i) ==
    /\ task[i].pc = "phase1"
    /\ task[i].q.st = "ready"
    /\ task' = [task EXCEPT ![i].q.st = "await",
                            ![i].q.max_tokens = QuestionMaxTokens,
                            ![i].q.calls = 1]
    /\ UNCHANGED <<stage, ctrl_error, question_list, results, all_questions_results>>
    /\ UNCHANGED <<listVars, unitVars>>

\* A response to the question call arrives.
QuestionResponse(i, resp) ==
    /\ task[i].pc = "phase1"
    /\ task[i].q.st = "await"
    /\ LET d == QuestionHandle(task[i].q.retry, resp) IN
         task' = [task EXCEPT ![i].q =
            CASE d.do = "continue" ->
                    [@ EXCEPT !.retry = @ + 1,
                              !.max_tokens = Escalate(@),
                              !.calls = @ + 1]
              [] d.do = "raise" -> [IdleCall EXCEPT !.st = "err", !.err = d.err]
              [] d.do = "return" ->
                    [IdleCall EXCEPT !.st = "ok",
                                     !.out = [question_latex |-> resp.question_latex]]]
    /\ UNCHANGED <<stage, ctrl_error, question_list, results, all_questions_results>>
    /\ UNCHANGED <<listVars, unitVars>>

\* generate_answer_latex_direct runs to its first client.aquery.
AnswerStart(i) ==
    /\ task[i].pc = "phase1"
    /\ task[i].a.st = "ready"
    /\ task' = [task EXCEPT ![i].a.st = "await",
                            ![i].a.max_tokens = AnswerMaxTokens,
                            ![i].a.calls = 1]
    /\ UNCHANGED <<stage, ctrl_error, question_list, results, all_questions_results>>
    /\ UNCHANGED <<listVars, unitVars>>

\* A response to the answer call arrives.
AnswerResponse(i, resp) ==
    /\ task[i].pc = "phase1"
    /\ task[i].a.st = "await"
    /\ LET d == AnswerHandle(task[i].a.retry, resp) IN
         task' = [task EXCEPT ![i].a =
            CASE d.do = "continue" ->
                    [@ EXCEPT !.retry = @ + 1,
                              !.max_tokens = Escalate(@),
                              !.calls = @ + 1]
              [] d.do = "raise" -> [IdleCall EXCEPT !.st = "err", !.err = d.err]
              [] d.do = "return" ->
                    [IdleCall EXCEPT !.st = "ok",
                                     !.out = [answer_latex |-> resp.answer_latex,
                                              marks |-> resp.marks]]]
    /\ UNCHANGED <<stage, ctrl_error, question_list, results, all_questions_results>>
    /\ UNCHANGED <<listVars, unitVars>>

Phase1Finished(i) ==
    /\ task[i].q.st \in {"ok", "err"}
    /\ task[i].a.st \in {"ok", "err"}

\* Mutant: the answer markup is passed where the question markup belongs.
LabelArgs_Swapped(i) ==
    [question_label |-> question_list[i].question_label,
     question_latex |-> task[i].a.out.answer_latex,
     answer_latex |-> task[i].a.out.answer_latex,
     existing_mark |-> task[i].a.out.marks]

\* The arguments label_question_direct is called with.
LabelArgs(i) ==
    [question_label |-> question_list[i].question_label,
     question_latex |-> task[i].q.out.question_latex,
     answer_latex |-> task[i].a.out.answer_latex,
     existing_mark |-> task[i].a.out.marks]

\* The inner gather(return_exceptions=True) has both results: re-raise the
\* first exception, else go on to label_question_direct, which awaits
\* get_all_subtopics.
Phase1Join(i, io) ==
    /\ task[i].pc = "phase1"
    /\ Phase1Finished(i)
    /\ IF task[i].q.st = "err" THEN ItemRaise(i, "idle", task[i].q.err)
       ELSE IF task[i].a.st = "err" THEN ItemRaise(i, "idle", task[i].a.err)
       ELSE IF enable_labelling
            THEN /\ task' = [task EXCEPT ![i].pc = "phase2",
                                         ![i].lab.st = "subtopics",
                                         ![i].lab.args = LabelArgs(i)]
                 /\ UNCHANGED <<stage, ctrl_error>>
            ELSE FinishItem(i, "idle", None, io)
    /\ UNCHANGED <<question_list, results, all_questions_results>>
    /\ UNCHANGED <<listVars, unitVars>>

\* get_all_subtopics returns: an empty list or an exception fails the labelling
\* (swallowed by `except Exception` around Step 2), a list leads to the call.
LabelSubtopics(i, sub, io) ==
    /\ task[i].pc = "phase2"
    /\ task[i].lab.st = "subtopics"
    /\ IF sub = "list"
       THEN /\ task' = [task EXCEPT ![i].lab.st = "await",
                                    ![i].lab.max_tokens = LabelMaxTokens,
                                    ![i].lab.calls = 1]
            /\ UNCHANGED <<stage, ctrl_error>>
       ELSE LabelFailed(i, IF sub = "empty" THEN "ValueError" ELSE "APIError", io)
    /\ UNCHANGED <<question_list, results, all_questions_results>>
    /\ UNCHANGED <<listVars, unitVars>>

\* A response to the labelling call arrives.  On return or raise,
\* generate_question_and_answer_latex_concurrent returns (a labelling error is
\* swallowed, label_output stays None) and the task runs on to its result.
LabelResponse(i, resp, io) ==
    /\ task[i].pc = "phase2"
    /\ task[i].lab.st = "await"
    /\ LET d == LabelHandle(task[i].lab.retry, resp) IN
         CASE d.do = "continue" ->
                /\ task' = [task EXCEPT ![i].lab.retry = @ + 1,
                                        ![i].lab.max_tokens = Escalate(@),
                                        ![i].lab.calls = @ + 1]
                /\ UNCHANGED <<stage, ctrl_error>>
           [] d.do = "raise" -> LabelFailed(i, d.err, io)
           [] d.do = "return" ->
                FinishItem(i, "ok",
                           [question_index |-> question_list[i].question_index,
                            question_label |-> question_list[i].question_label,
                            topic_id |-> resp.topic_id],
                           io)
    /\ UNCHANGED <<question_list, results, all_questions_results>>
    /\ UNCHANGED <<listVars, unitVars>>

-----------------------------------------------------------------------------
(* Fan-out: the controller *)

AllResolved == \A i \in Items : task[i].pc = "done"

\* `results = await asyncio.gather(*tasks, return_exceptions=True)` returns
\* once every task has resolved, in task order.
GatherReturn ==
    /\ stage = "FanningOut"
    /\ AllResolved
    /\ results' = [i \in Items |-> task[i].result]
    /\ stage' = "Assembling"
    /\ UNCHANGED <<ctrl_error, question_list, task, all_questions_results>>
    /\ UNCHANGED <<listVars, unitVars>>

\* One pass of `for result in results`: the entry appended for one result.
\* (isinstance(result, Exception) never applies to a dict handed back by
\* process_single_question.)
AssembledEntry(result) ==
    IF result.success
    THEN [question_index |-> result.question_index,
          question_label |-> result.question_label,
          label |-> result.label]
    ELSE [question_index |-> result.question_index,
          question_label |-> result.question_label,
          error |-> result.error]

\* Mutant: the loop skips the results of failed items.
Assemble_SkipFailed(io) ==
    /\ stage = "Assembling"
    /\ all_questions_results' =
          LET ok == SelectSeq(results, LAMBDA r : r.success)
          IN  [k \in DOMAIN ok |-> AssembledEntry(ok[k])]
    /\ ctrl_error' =
          IF Len(question_list) = 0
          THEN [exc |-> "ZeroDivisionError", at |-> "assembly"]
          ELSE IF io # "ok" THEN [exc |-> io, at |-> "assembly"]
          ELSE NoError
    /\ stage' = "Finally"
    /\ UNCHANGED <<question_list, task, results>>
    /\ UNCHANGED <<listVars, unitVars>>

\* The loop over results, then the statistics log, the summary and
\* complete_result.json; all synchronous up to the finally block.
\* `concurrent_duration/question_list.total_questions` divides by zero on an
\* empty collection.
Assemble(io) ==
    /\ stage = "Assembling"
    /\ all_questions_results' = [k \in DOMAIN results |-> AssembledEntry(results[k])]
    /\ ctrl_error' =
          IF Len(question_list) = 0
          THEN [exc |-> "ZeroDivisionError", at |-> "assembly"]
          ELSE IF io # "ok" THEN [exc |-> io, at |-> "assembly"]
          ELSE NoError
    /\ stage' = "Finally"
    /\ UNCHANGED <<question_list, task, results>>
    /\ UNCHANGED <<listVars, unitVars>>

\* The finally block ends; the call returns its result or the exception leaves it.
Finally ==
    /\ stage = "Finally"
    /\ stage' = IF ctrl_error = NoError THEN "Done" ELSE "Failed"
    /\ UNCHANGED <<ctrl_error, question_list, task, results, all_questions_results>>
    /\ UNCHANGED <<listVars, unitVars>>

-----------------------------------------------------------------------------
(* Listing: validate_question_list_format *)

L_1a == <<"1", "(", "a", ")">>
L_Q2 == <<"Q", "2">>
ListLabels == {L_1a, L_Q2}

ExamTypes == {"type1", "type2", "type3"}

IsDigit(c) == c \in {"0", "1", "2", "3", "4", "5", "6", "7", "8", "9"}

IsLetter(c) ==
    c \in {"a", "b", "c", "d", "e", "f", "g", "h", "i", "j", "k", "l", "m",
           "n", "o", "p", "q", "r", "s", "t", "u", "v", "w", "x", "y", "z",
           "A", "B", "C", "D", "E", "F", "G", "H", "I", "J", "K", "L", "M",
           "N", "O", "P", "Q", "R", "S", "T", "U", "V", "W", "X", "Y", "Z"}

\* type1_pattern.match(label) for r'^\d+\([a-z]\)$' with re.IGNORECASE:
\* digits, "(", one letter, ")"; `$` also matches before one final newline.
Type1Match(label) ==
    LET n == Len(label)
        core == IF n > 0 /\ label[n] = "\n" THEN SubSeq(label, 1, n - 1) ELSE label
        m == Len(core)
    IN  /\ m >= 4
        /\ core[m] = ")"
        /\ IsLetter(core[m - 1])
        /\ core[m - 2] = "("
        /\ \A k \in 1..(m - 3) : IsDigit(core[k])

\* sum(1 for label in labels if type1_pattern.match(label))
Type1Count(questions) ==
    Cardinality({k \in DOMAIN questions : Type1Match(questions[k].question_label)})

\* Mutant: the share of matching labels is not looked at.
validate_question_list_format_NoRatio(questions, exam_type) ==
    IF exam_type = "type1" THEN Type1Count(questions) # 0
    ELSE IF exam_type = "type2" THEN Type1Count(questions) = 0
    ELSE TRUE

\* validate_question_list_format(question_list, exam_type)[0].
\* type1_count / len(labels) < 0.2 is type1_count * 5 < len(labels).
validate_question_list_format(questions, exam_type) ==
    IF exam_type = "type1"
    THEN IF Type1Count(questions) = 0 THEN FALSE
         ELSE IF Len(questions) > 0 /\ Type1Count(questions) * 5 < Len(questions)
              THEN FALSE
              ELSE TRUE
    ELSE IF exam_type = "type2"
         THEN IF Type1Count(questions) > 0 THEN FALSE ELSE TRUE
         ELSE TRUE

-----------------------------------------------------------------------------
(* Listing: list_all_questions_direct *)

ListMaxTokens == 4000

\* Token usage one completion response reports.
CallUsage == [requests |-> 1, input_tokens |-> 100, output_tokens |-> 50]

RECURSIVE SeqsUpTo(_, _)
SeqsUpTo(S, n) ==
    IF n = 0 THEN {<<>>}
    ELSE LET shorter == SeqsUpTo(S, n - 1)
         IN  shorter \cup {Append(q, x) : q \in shorter, x \in S}

\* The question lists a completion response can carry.
CandidateQuestions ==
    {[k \in DOMAIN labels |-> [question_index |-> k, question_label |-> labels[k]]] :
        labels \in SeqsUpTo(ListLabels, MaxListLen)}

\* QuestionList(**response_data): total_questions is whatever the response
\* says, equal to len(questions) or not.
Candidates(exam_type) ==
    UNION {{[exam_type |-> exam_type, total_questions |-> t, questions |-> qs] :
                t \in {Len(qs), Len(qs) + 1}} : qs \in CandidateQuestions}

ListFailureKinds == {"exc", "empty", "badjson", "badschema"}

ListResponses(exam_type) ==
    [kind : ListFailureKinds] \cup [kind : {"ok"}, cand : Candidates(exam_type)]

\* Mutant: the re-ask repeats the plain wording.
Emphasize_Never(retry_count) == FALSE

\* emphasize = retry_count > 0
Emphasize(retry_count) == retry_count > 0

\* The request sent by one invocation: prompt built from (exam_type, emphasize),
\* the file reference, max_tokens=4000.
ListRequest(exam_type, paper_file_id, retry_count) ==
    [exam_type |-> exam_type,
     paper_file_id |-> paper_file_id,
     emphasize |-> Emphasize(retry_count),
     max_tokens |-> ListMaxTokens]

\* Mutant: a second invalid candidate is re-asked as well.
NeedsReask_Twice(is_valid, retry_count) == ~is_valid /\ retry_count <= 1

\* `if not is_valid: if retry_count == 0:` -- the re-ask condition.
NeedsReask(is_valid, retry_count) == ~is_valid /\ retry_count = 0

\* Mutant: a retried candidate that is still invalid is an error.
ListHandle_RaiseInvalid(exam_type, retry_count, resp) ==
    IF resp.kind # "ok" THEN [do |-> "raise", err |-> "ValueError"]
    ELSE IF validate_question_list_format(resp.cand.questions, exam_type)
         THEN [do |-> "return", err |-> "none"]
         ELSE IF retry_count = 0 THEN [do |-> "reask", err |-> "none"]
              ELSE [do |-> "raise", err |-> "ValueError"]

\* What list_all_questions_direct does with one response: raise (the request
\* raised, json.loads failed on an empty or malformed body, or the schema
\* rejected it), call itself again with retry_count + 1, or return.
ListHandle(exam_type, retry_count, resp) ==
    CASE resp.kind = "exc" -> [do |-> "raise", err |-> "APIError"]
      [] resp.kind = "empty" -> [do |-> "raise", err |-> "ValueError"]
      [] resp.kind = "badjson" -> [do |-> "raise", err |-> "ValueError"]
      [] resp.kind = "badschema" -> [do |-> "raise", err |-> "ValueError"]
      [] resp.kind = "ok" ->
            IF NeedsReask(validate_question_list_format(resp.cand.questions, exam_type),
                          retry_count)
            THEN [do |-> "reask", err |-> "none"]
            ELSE [do |-> "return", err |-> "none"]

IdleLst == [pc |-> "idle", exam_type |-> "none", paper_file_id |-> "none",
            retry_count |-> 0, requests |-> <<>>, responses |-> <<>>,
            ret |-> None, usage |-> None, err |-> "none"]

\* list_all_questions_direct(exam_type, paper_file_id) is called (retry_count
\* defaults to 0) and runs to its client.aquery.
ListCall(exam_type, paper_file_id) ==
    lst' = [IdleLst EXCEPT
              !.pc = "await",
              !.exam_type = exam_type,
              !.paper_file_id = paper_file_id,
              !.requests = <<ListRequest(exam_type, paper_file_id, 0)>>]

\* A response to the listing request arrives.  requests and responses are the
\* history of the exchange with the service; ret and usage are the returned pair.
ListResponse(resp) ==
    /\ wp.pc = "listing"
    /\ lst.pc = "await"
    /\ LET d == ListHandle(lst.exam_type, lst.retry_count, resp) IN
         lst' =
            CASE d.do = "raise" ->
                    [lst EXCEPT
                        !.pc = "raised",
                        !.responses = Append(@, resp),
                        !.err = d.err]
              [] d.do = "reask" ->
                    [lst EXCEPT
                        !.retry_count = @ + 1,
                        !.responses = Append(@, resp),
                        !.requests = Append(@, ListRequest(lst.exam_type,
                                                           lst.paper_file_id,
                                                           lst.retry_count + 1))]
              [] d.do = "return" ->
                    [lst EXCEPT
                        !.pc = "returned",
                        !.responses = Append(@, resp),
                        !.ret = resp.cand,
                        !.usage = CallUsage]
    /\ UNCHANGED <<wp, br>>
    /\ UNCHANGED <<fanVars, unitVars>>

-----------------------------------------------------------------------------
(* Page annotator: list_all_questions_with_pages_direct *)

Branches == {"paper", "solution"}

\* item["paper_pages"] / item["solution_pages"] as the response gives it: a
\* list of page indices, or JSON null, which no List[int] field accepts.
PageLists(b) ==
    IF b = "paper" THEN {[pages |-> <<1, 2>>], None} ELSE {[pages |-> <<3>>]}

\* The dict built from result["annotations"]: label -> page list, for whatever
\* labels the response mentions.
PageMaps(b) == UNION {[D -> PageLists(b)] : D \in SUBSET ListLabels}

BranchFailureKinds == {"exc", "empty", "badjson", "badshape"}

BranchResponses(b) ==
    [kind : BranchFailureKinds] \cup [kind : {"ok"}, map : PageMaps(b)]

\* annotate_paper_pages / annotate_solution_pages: what one response leads to.
BranchHandle(resp) ==
    CASE resp.kind = "exc" -> [do |-> "raise", err |-> "APIError"]
      [] resp.kind = "empty" -> [do |-> "raise", err |-> "ValueError"]
      [] resp.kind = "badjson" -> [do |-> "raise", err |-> "ValueError"]
      [] resp.kind = "badshape" -> [do |-> "raise", err |-> "KeyError"]
      [] resp.kind = "ok" -> [do |-> "return", err |-> "none"]

IdleBranch == [st |-> "idle", map |-> None, err |-> "none"]

ZeroUsage == [requests |-> 0, input_tokens |-> 0, output_tokens |-> 0]

\* Mutant: the total keeps only the last record.
UsageAdd_Last(u, v) == v

\* Usage.add
UsageAdd(u, v) ==
    [requests |-> u.requests + v.requests,
     input_tokens |-> u.input_tokens + v.input_tokens,
     output_tokens |-> u.output_tokens + v.output_tokens]

IdleWp == [pc |-> "idle", exam_type |-> "none", ret |-> None,
           total_usage |-> ZeroUsage, err |-> "none"]

\* The temporary upload of the paper PDF before Step 1; on success
\* list_all_questions_direct is called with the new file id.
WpUpload(up) ==
    /\ wp.pc = "uploading"
    /\ IF up = "ok"
       THEN /\ wp' = [wp EXCEPT !.pc = "listing"]
            /\ ListCall(wp.exam_type, "file-temp")
       ELSE /\ wp' = [wp EXCEPT !.pc = "raised", !.err = "APIError"]
            /\ UNCHANGED lst
    /\ UNCHANGED br
    /\ UNCHANGED <<fanVars, unitVars>>

\* list_all_questions_direct has returned or raised; the finally block deletes
\* the temporary file (its own failure replaces the outcome), then the two
\* annotation coroutines are handed to asyncio.gather.
WpCleanup(del) ==
    /\ wp.pc = "listing"
    /\ lst.pc \in {"returned", "raised"}
    /\ IF del # "ok"
       THEN /\ wp' = [wp EXCEPT !.pc = "raised", !.err = "APIError"]
            /\ UNCHANGED br
       ELSE IF lst.pc = "raised"
       THEN /\ wp' = [wp EXCEPT !.pc = "raised", !.err = lst.err]
            /\ UNCHANGED br
       ELSE /\ wp' = [wp EXCEPT !.pc = "annotating",
                                !.total_usage = UsageAdd(@, lst.usage)]
            /\ br' = [b \in Branches |-> [IdleBranch EXCEPT !.st = "ready"]]
    /\ UNCHANGED lst
    /\ UNCHANGED <<fanVars, unitVars>>

\* A branch starts: page markers are added and the marked PDF is uploaded
\* (outside the try/finally), then the completion request is sent.
BranchStart(b, up) ==
    /\ wp.pc = "annotating"
    /\ br[b].st = "ready"
    /\ br' = [br EXCEPT ![b] =
                IF up = "ok" THEN [@ EXCEPT !.st = "await"]
                ELSE [@ EXCEPT !.st = "err", !.err = "APIError"]]
    /\ UNCHANGED <<lst, wp>>
    /\ UNCHANGED <<fanVars, unitVars>>

\* The branch's response arrives; what is left is the finally block.
BranchResponse(b, resp) ==
    /\ wp.pc = "annotating"
    /\ br[b].st = "await"
    /\ LET d == BranchHandle(resp) IN
         br' = [br EXCEPT ![b] =
                  IF d.do = "return"
                  THEN [@ EXCEPT !.st = "closing_ok", !.map = resp.map]
                  ELSE [@ EXCEPT !.st = "closing_err", !.err = d.err]]
    /\ UNCHANGED <<lst, wp>>
    /\ UNCHANGED <<fanVars, unitVars>>

\* finally: await openai_client.files.delete(...).  A failing delete replaces
\* the branch's outcome by its own exception.
BranchClose(b, del) ==
    /\ wp.pc = "annotating"
    /\ br[b].st \in {"closing_ok", "closing_err"}
    /\ br' = [br EXCEPT ![b] =
                IF del # "ok" THEN [IdleBranch EXCEPT !.st = "err", !.err = "APIError"]
                ELSE IF @.st = "closing_ok" THEN [@ EXCEPT !.st = "ok"]
                ELSE [@ EXCEPT !.st = "err"]]
    /\ UNCHANGED <<lst, wp>>
    /\ UNCHANGED <<fanVars, unitVars>>

\* Mutant: a label absent from a map is a KeyError-like hole (null pages).
PagesOf_Strict(map, label) == IF label \in DOMAIN map THEN map[label] ELSE None

\* dict.get(label, [])
PagesOf(map, label) ==
    IF label \in DOMAIN map THEN map[label] ELSE [pages |-> <<>>]

\* QuestionItemWithPages(...) accepts the item: both page fields are lists.
Mergeable(q, paper_pages_map, solution_pages_map) ==
    /\ ~IsNone(PagesOf(paper_pages_map, q.question_label))
    /\ ~IsNone(PagesOf(solution_pages_map, q.question_label))

\* The merge loop and QuestionListWithPages(...).
MergeResult(list, paper_pages_map, solution_pages_map) ==
    LET questions_with_pages ==
            [k \in DOMAIN list.questions |->
                [question_index |-> list.questions[k].question_index,
                 question_label |-> list.questions[k].question_label,
                 paper_pages |-> PagesOf(paper_pages_map,
                                         list.questions[k].question_label).pages,
                 solution_pages |-> PagesOf(solution_pages_map,
                                            list.questions[k].question_label).pages]]
    IN  [exam_type |-> list.exam_type,
         total_questions |-> Len(questions_with_pages),
         questions |-> questions_with_pages]

\* Mutant: the join goes on as soon as one branch has finished.
BranchesFinished_Any == \E b \in Branches : br[b].st \in {"ok", "err"}

BranchesFinished == \A b \in Branches : br[b].st \in {"ok", "err"}

\* Mutant: a failed branch is merged as an empty page map instead of raising.
AnnotateJoin_PartialMerge ==
    /\ wp.pc = "annotating"
    /\ BranchesFinished
    /\ LET paper_pages_map == IF br["paper"].st = "ok" THEN br["paper"].map ELSE <<>>
           solution_pages_map ==
                IF br["solution"].st = "ok" THEN br["solution"].map ELSE <<>>
       IN  IF \A k \in DOMAIN lst.ret.questions :
                 Mergeable(lst.ret.questions[k], paper_pages_map, solution_pages_map)
           THEN wp' = [wp EXCEPT
                         !.pc = "returned",
                         !.ret = MergeResult(lst.ret, paper_pages_map,
                                             solution_pages_map)]
           ELSE wp' = [wp EXCEPT !.pc = "raised", !.err = "ValidationError"]
    /\ UNCHANGED <<lst, br>>
    /\ UNCHANGED <<fanVars, unitVars>>

\* gather(return_exceptions=True) has both outcomes: any exception among them
\* raises RuntimeError, otherwise the usage is added up and the maps are merged,
\* one QuestionItemWithPages per listed question; a page value that is not a
\* list makes that constructor raise.
AnnotateJoin ==
    /\ wp.pc = "annotating"
    /\ BranchesFinished
    /\ IF \E b \in Branches : br[b].st = "err"
       THEN wp' = [wp EXCEPT !.pc = "raised", !.err = "RuntimeError"]
       ELSE IF \A k \in DOMAIN lst.ret.questions :
                  Mergeable(lst.ret.questions[k], br["paper"].map, br["solution"].map)
       THEN wp' = [wp EXCEPT
                     !.pc = "returned",
                     !.total_usage = UsageAdd(UsageAdd(@, CallUsage), CallUsage),
                     !.ret = MergeResult(lst.ret, br["paper"].map, br["solution"].map)]
       ELSE wp' = [wp EXCEPT
                     !.pc = "raised",
                     !.total_usage = UsageAdd(UsageAdd(@, CallUsage), CallUsage),
                     !.err = "ValidationError"]
    /\ UNCHANGED <<lst, br>>
    /\ UNCHANGED <<fanVars, unitVars>>

-----------------------------------------------------------------------------
(* Phase 1 of one item with its exchange recorded: the two generation      *)
(* calls of generate_question_and_answer_latex_concurrent, the max_tokens  *)
(* of every request each sends and the kind of every response each gets.   *)

Agents == {"question", "answer"}

InitialMaxTokens(agent) ==
    IF agent = "question" THEN QuestionMaxTokens ELSE AnswerMaxTokens

AgentResponses(agent) ==
    IF agent = "question" THEN QuestionResponses ELSE AnswerResponses

AgentHandle(agent, retry, resp) ==
    IF agent = "question" THEN QuestionHandle(retry, resp)
    ELSE AnswerHandle(retry, resp)

IdleGenCall == [st |-> "idle", retry |-> 0, max_tokens |-> 0,
                requests |-> <<>>, responses |-> <<>>, out |-> None, err |-> "none"]

IdleGen == [call |-> [agent \in Agents |-> IdleGenCall],
            item |-> "idle", error |-> "none"]

\* The coroutine runs to the first client.aquery of its loop.
GenStart(agent) ==
    /\ gen.item = "phase1"
    /\ gen.call[agent].st = "idle"
    /\ gen' = [gen EXCEPT
                 !.call[agent].st = "await",
                 !.call[agent].max_tokens = InitialMaxTokens(agent),
                 !.call[agent].requests = <<InitialMaxTokens(agent)>>]
    /\ UNCHANGED <<fanVars, listVars, box, svcVars>>

\* A response arrives: the loop continues with an escalated max_tokens,
\* raises, or returns the parsed output.
GenResponse(agent, resp) ==
    /\ gen.item = "phase1"
    /\ gen.call[agent].st = "await"
    /\ LET d == AgentHandle(agent, gen.call[agent].retry, resp) IN
         gen' = [gen EXCEPT !.call[agent] =
            CASE d.do = "continue" ->
                    [@ EXCEPT !.retry = @ + 1,
                              !.max_tokens = Escalate(@),
                              !.requests = Append(@, Escalate(gen.call[agent].max_tokens)),
                              !.responses = Append(@, resp.kind)]
              [] d.do = "raise" ->
                    [@ EXCEPT !.st = "err",
                              !.responses = Append(@, resp.kind),
                              !.err = d.err]
              [] d.do = "return" ->
                    [@ EXCEPT !.st = "ok",
                              !.responses = Append(@, resp.kind),
                              !.out = resp]]
    /\ UNCHANGED <<fanVars, listVars, box, svcVars>>

\* The gather of the two calls returns: the question's exception, else the
\* answer's, is raised and becomes the item's failure in the except clause of
\* process_single_question; otherwise the item goes on to Phase 2.
GenJoin ==
    /\ gen.item = "phase1"
    /\ \A agent \in Agents : gen.call[agent].st \in {"ok", "err"}
    /\ gen' = IF gen.call["question"].st = "err"
              THEN [gen EXCEPT !.item = "failed", !.error = gen.call["question"].err]
              ELSE IF gen.call["answer"].st = "err"
              THEN [gen EXCEPT !.item = "failed", !.error = gen.call["answer"].err]
              ELSE [gen EXCEPT !.item = "phase2"]
    /\ UNCHANGED <<fanVars, listVars, box, svcVars>>

-----------------------------------------------------------------------------
(* Region refinement: correct_image_bbox *)

\* Regions in PDF points, as [x1, y1, x2, y2]: well-formed, inverted in x,
\* inverted in y, partly negative, reaching beyond the page, wholly beyond the
\* page, of zero area, and a list of three numbers.
R_ok == <<1, 1, 3, 3>>
R_invx == <<3, 1, 1, 3>>
R_invy == <<1, 3, 3, 1>>
R_neg == <<-3, -1, 2, 2>>
R_beyond == <<2, 2, 9, 9>>
R_far == <<9, 9, 12, 12>>
R_zero == <<1, 1, 1, 1>>
R_short == <<1, 1, 3>>

ProposedRegions == {R_ok, R_invx, R_invy, R_neg, R_beyond, R_far, R_zero, R_short}

OriginalRegions == {R_ok, <<0, 0, 4, 4>>}

\* page.rect of the PDF page, in points.
PageSizes == {[width |-> 4, height |-> 4]}

\* Size in pixels of the page as rendered by PDFRenderer.render_page.
RasterSizes == {[width |-> 1, height |-> 1], [width |-> 8, height |-> 6]}

\* BboxCorrectionOutput as parsed from a review response.
Reviews ==
    [is_correct : {TRUE}, corrected_bbox : {None}]
        \cup [is_correct : {FALSE},
              corrected_bbox : {None} \cup {[coords |-> r] : r \in ProposedRegions}]

ReviewFailureKinds == {"exc", "empty", "badjson", "badschema"}

ReviewResponses == [kind : ReviewFailureKinds] \cup [kind : {"ok"}, review : Reviews]

\* int(n / d) for d > 0: Python's int() truncates towards zero.
Trunc(n, d) == IF n >= 0 THEN n \div d ELSE -((-n) \div d)

\* int(x * scale) with scale = rendered / pdf.
ToPixel(x, rendered, pdf) == Trunc(x * rendered, pdf)

Min(a, b) == IF a <= b THEN a ELSE b
Max(a, b) == IF a >= b THEN a ELSE b

\* Mutant: both corners are clamped to the raster, no minimum size.
ClampedRect_NoMinimum(current_bbox, raster, page) ==
    LET px1 == ToPixel(current_bbox[1], raster.width, page.width)
        py1 == ToPixel(current_bbox[2], raster.height, page.height)
        px2 == ToPixel(current_bbox[3], raster.width, page.width)
        py2 == ToPixel(current_bbox[4], raster.height, page.height)
    IN  <<Max(0, Min(px1, raster.width)), Max(0, Min(py1, raster.height)),
          Max(0, Min(px2, raster.width)), Max(0, Min(py2, raster.height))>>

\* Lines 281-292: conversion to pixels and clamping; the rectangle handed to
\* rendered_img.crop.
ClampedRect(current_bbox, raster, page) ==
    LET px1 == ToPixel(current_bbox[1], raster.width, page.width)
        py1 == ToPixel(current_bbox[2], raster.height, page.height)
        px2 == ToPixel(current_bbox[3], raster.width, page.width)
        py2 == ToPixel(current_bbox[4], raster.height, page.height)
        pixel_x1 == Max(0, Min(px1, raster.width - 1))
        pixel_y1 == Max(0, Min(py1, raster.height - 1))
        pixel_x2 == Max(pixel_x1 + 1, Min(px2, raster.width))
        pixel_y2 == Max(pixel_y1 + 1, Min(py2, raster.height))
    IN  <<pixel_x1, pixel_y1, pixel_x2, pixel_y2>>

IdleBox == [pc |-> "idle", max_iterations |-> 0, page |-> None, raster |-> None,
            original_bbox |-> <<>>, current_bbox |-> <<>>,
            all_image_paths |-> <<>>, cut |-> <<>>, iteration |-> 0,
            calls |-> 0, total_usage |-> 0, verdict |-> "none",
            exit |-> "none", ret |-> None]

\* all_image_paths as names: 0 is cropped_image_path, k the file written in
\* iteration k.  cut records, for each of them, the region it was cut from and
\* the pixel rectangle cropped (none for the caller's original crop).
OriginalCrop(original_bbox) == [region |-> original_bbox, rect |-> <<>>]

\* `return current_bbox, <success>, total_usage, all_image_paths`
BoxReturn(b, success, exit) ==
    [b EXCEPT !.pc = "returned",
              !.exit = exit,
              !.ret = [bbox |-> b.current_bbox, success |-> success,
                       total_usage |-> b.total_usage,
                       all_image_paths |-> b.all_image_paths]]

\* Mutant: the loop head allows one more iteration.
BoxLoopHead_OneMore(b, read) ==
    IF b.iteration >= b.max_iterations + 1
    THEN BoxReturn(b, FALSE, "Exhausted")
    ELSE IF read # "ok" THEN BoxReturn(b, FALSE, "Error")
    ELSE [b EXCEPT !.pc = "await", !.calls = @ + 1]

\* The head of `for iteration in range(max_iterations)`: the loop is over and
\* the function returns, or the current crop is read (an exception breaks out)
\* and the review request is sent.
BoxLoopHead(b, read) ==
    IF b.iteration >= b.max_iterations
    THEN BoxReturn(b, FALSE, "Exhausted")
    ELSE IF read # "ok" THEN BoxReturn(b, FALSE, "Error")
    ELSE [b EXCEPT !.pc = "await", !.calls = @ + 1]

\* Lines 144-185: page size, size of the original crop, rendering of the page;
\* none of it is inside a try, so a failure leaves the function as an
\* exception.  Then the loop is entered.
BoxSetup(setup, read) ==
    /\ box.pc = "called"
    /\ box' = IF setup # "ok" THEN [box EXCEPT !.pc = "raised", !.exit = "Raised"]
              ELSE BoxLoopHead(box, read)
    /\ UNCHANGED <<fanVars, listVars, gen, svcVars>>

\* Mutant: a review that gives no corrected region is skipped and the loop
\* goes on with the same crop.
BoxRejected_Continue(b, read) ==
    BoxLoopHead([b EXCEPT !.iteration = @ + 1], read)

\* `if correction_result.corrected_bbox is None: ... break`
BoxRejected(b, read) == BoxReturn(b, FALSE, "Rejected")

\* Mutant: a crop marked correct is reviewed once more.
BoxConverged_Recheck(b, read) ==
    IF b.calls < 2 THEN BoxLoopHead(b, read) ELSE BoxReturn(b, TRUE, "Converged")

\* `if correction_result.is_correct: return current_bbox, True, ...`
BoxConverged(b, read) == BoxReturn(b, TRUE, "Converged")

\* Lines 278-306: the region is replaced, converted, clamped, cropped and the
\* crop saved and appended; unpacking a list that has not four numbers, or a
\* failing save, is an exception and breaks out of the loop.
BoxCorrect(b, coords, crop, read) ==
    LET held == [b EXCEPT !.current_bbox = coords] IN
    IF Len(coords) # 4 THEN BoxReturn(held, FALSE, "Error")
    ELSE IF crop # "ok" THEN BoxReturn(held, FALSE, "Error")
    ELSE BoxLoopHead(
            [held EXCEPT
                !.all_image_paths = Append(@, b.iteration + 1),
                !.cut = Append(@, [region |-> coords,
                                   rect |-> ClampedRect(coords, b.raster, b.page)]),
                !.iteration = @ + 1],
            read)

\* Mutant: a failed review call is raised to the caller.
BoxReviewFailed_Raise(b) == [b EXCEPT !.pc = "raised", !.exit = "Raised"]

\* The request raised, or the body was empty (`break`), not JSON or not a
\* BboxCorrectionOutput (`except Exception: break`): the function returns.
BoxReviewFailed(b) == BoxReturn(b, FALSE, "Error")

\* What the review just received says: unusable, crop correct, crop incorrect
\* with no corrected region, or crop incorrect with one.
Verdict(resp) ==
    IF resp.kind # "ok" THEN "error"
    ELSE IF resp.review.is_correct THEN "correct"
    ELSE IF IsNone(resp.review.corrected_bbox) THEN "rejected"
    ELSE "corrected"

\* A response to the review request arrives and the loop body runs on to the
\* next request or to the return.  verdict keeps what the last review said.
BoxResponse(resp, crop, read) ==
    /\ box.pc = "await"
    /\ box' =
        IF resp.kind # "ok"
        THEN BoxReviewFailed([box EXCEPT !.verdict = Verdict(resp)])
        ELSE LET b == [box EXCEPT !.total_usage = @ + 1, !.verdict = Verdict(resp)] IN
             IF resp.review.is_correct THEN BoxConverged(b, read)
             ELSE IF IsNone(resp.review.corrected_bbox) THEN BoxRejected(b, read)
             ELSE BoxCorrect(b, resp.review.corrected_bbox.coords, crop, read)
    /\ UNCHANGED <<fanVars, listVars, gen, svcVars>>

-----------------------------------------------------------------------------
(* UsageTracker (utils/usage_tracker.py).  Token counts are integers;      *)
(* duration_seconds is counted in milliseconds and estimated_cost_usd in   *)
(* units of 10^-10 dollar, so that round(x, 2) and round(x, 4) are         *)
(* computed and not assumed.                                               *)

Tasks == {"t1", "t2"}
StepNames == {"classify_exam_type", "list_all_questions"}

\* The (usage, duration_seconds) pairs a caller passes: (1, 100, 50) taking
\* 2.0 s and (1, 200, 80) taking 0.004 s.
StepInputs ==
    {[usage |-> [requests |-> 1, input_tokens |-> 100, output_tokens |-> 50],
      duration_ms |-> 2000],
     [usage |-> [requests |-> 1, input_tokens |-> 200, output_tokens |-> 80],
      duration_ms |-> 4]}

\* _calculate_cost with PRICING["gpt-4o"]: input 0.0025 and output 0.01 per
\* 10^6 tokens, in units of 10^-10 dollar.
calculate_cost(usage) == usage.input_tokens * 25 + usage.output_tokens * 100

\* round(x, 4) of a cost, in units of 10^-4 dollar.
Round4(cost) == (cost + 500000) \div 1000000

\* round(x, 2) of a duration, in hundredths of a second (no input is a tie).
Round2(ms) == (ms + 5) \div 10

\* StepUsage.to_dict
to_dict(step) ==
    [step_name |-> step.step_name,
     requests |-> step.requests,
     input_tokens |-> step.input_tokens,
     output_tokens |-> step.output_tokens,
     estimated_cost_usd |-> Round4(step.estimated_cost),
     duration_seconds |-> Round2(step.duration_ms)]

\* A new tracker: no step, a zero Usage.  `added` is the history of the
\* calls of add_step_usage, `todo` what each task still has to record and
\* `last` the value of the latest get_summary with the number of records
\* added before it.
IdleLedger ==
    [steps |-> [n \in StepNames |-> None],
     total_usage |-> ZeroUsage,
     added |-> <<>>,
     todo |-> [t \in Tasks |-> 0],
     last |-> None]

RECURSIVE SumDurations(_, _)
SumDurations(steps, names) ==
    IF names = {} THEN 0
    ELSE LET n == CHOOSE x \in names : TRUE
         IN (IF IsNone(steps[n]) THEN 0 ELSE steps[n].duration_ms)
            + SumDurations(steps, names \ {n})

\* get_summary: the per-step dictionary and the total.
get_summary(l) ==
    [steps |-> [n \in StepNames |->
                   IF IsNone(l.steps[n]) THEN None ELSE to_dict(l.steps[n])],
     total |-> [requests |-> l.total_usage.requests,
                input_tokens |-> l.total_usage.input_tokens,
                output_tokens |-> l.total_usage.output_tokens,
                estimated_cost_usd |-> Round4(calculate_cost(l.total_usage)),
                total_duration_seconds |->
                    Round2(SumDurations(l.steps, StepNames))]]

\* add_step_usage, called by task t.  The method has no await: it runs from
\* its first line to its return without another task in between.
AddStepUsage(t, step_name, in) ==
    /\ ledger.todo[t] > 0
    /\ LET step_usage == [step_name |-> step_name,
                          requests |-> in.usage.requests,
                          input_tokens |-> in.usage.input_tokens,
                          output_tokens |-> in.usage.output_tokens,
                          estimated_cost |-> calculate_cost(in.usage),
                          duration_ms |-> in.duration_ms]
       IN ledger' = [ledger EXCEPT
                        !.steps[step_name] = step_usage,
                        !.total_usage = UsageAdd(@, in.usage),
                        !.added = Append(@, [by |-> t, step |-> step_usage]),
                        !.todo[t] = @ - 1]
    /\ UNCHANGED <<fanVars, listVars, gen, box, run, fm, fnVars>>

\* Mutant: the summary is handed out and the steps are cleared.
GetSummary_Drains ==
    /\ ledger' = [ledger EXCEPT
                     !.steps = [n \in StepNames |-> None],
                     !.last = [at |-> Len(ledger.added),
                               value |-> get_summary(ledger)]]
    /\ UNCHANGED <<fanVars, listVars, gen, box, run, fm, fnVars>>

\* A call of get_summary.
GetSummary ==
    /\ ledger' = [ledger EXCEPT
                     !.last = [at |-> Len(ledger.added),
                               value |-> get_summary(ledger)]]
    /\ UNCHANGED <<fanVars, listVars, gen, box, run, fm, fnVars>>

-----------------------------------------------------------------------------
(* run_complete_workflow as a whole (workflow.py 274-897), one action per  *)
(* stretch of code between two awaits.  The listing and the fan-out are    *)
(* taken here by their outcome; their steps are modelled above.            *)

RunStages == <<"Preprocessing", "Classifying", "Uploading", "Listing",
               "Annotating", "FanningOut", "Assembling", "Done">>

StageNames == {RunStages[k] : k \in DOMAIN RunStages}

IdleRun ==
    [pc |-> "idle",
     started |-> <<>>,
     outcome |-> [s \in StageNames |-> "none"],
     exam_type |-> "none",
     usage_steps |-> <<>>,
     tasks |-> <<>>,
     launched |-> FALSE,
     marked |-> FALSE,
     marked_uploaded |-> {},
     marked_ids |-> FALSE,
     delete_issued |-> {},
     pending |-> None,
     out |-> None,
     raised |-> None]

\* An exception leaves the try block: the finally block runs next.
Abort(r, s, exc) ==
    [r EXCEPT !.pc = "Finally",
              !.outcome[s] = exc,
              !.pending = [raise |-> [at |-> s, exc |-> exc]]]

\* Stage s is over and the code goes on to the next one.
Advance(r, s, next) ==
    [r EXCEPT !.pc = next, !.outcome[s] = "ok", !.started = Append(@, next)]

\* Step 1: preprocess_for_classification and the writing of its images.
RunPreprocess(io) ==
    /\ run.pc = "Preprocessing"
    /\ run' = IF io = "ok" THEN Advance(run, "Preprocessing", "Classifying")
              ELSE Abort(run, "Preprocessing", io)
    /\ UNCHANGED <<fanVars, listVars, gen, box, ledger, fm, fnVars>>

\* What the classifier can receive: a JSON object with an exam_type, one
\* without, or a failure (the request raises, empty content, not JSON).
ClassifierResponses ==
    {[kind |-> "ok", exam_type |-> e] : e \in ExamTypes \cup {"missing"}}
        \cup {[kind |-> k, exam_type |-> "none"] : k \in {"exc", "empty", "badjson"}}

\* Mutant: a failed classification falls back to the default type.
ClassifyHandle_Default(resp) ==
    [do |-> "return",
     exam_type |-> IF resp.exam_type \in ExamTypes THEN resp.exam_type ELSE "type1"]

\* classify_exam_type_direct: response_data.get("exam_type", "type1"); every
\* exception is logged and raised again.
ClassifyHandle(resp) ==
    IF resp.kind = "ok"
    THEN [do |-> "return",
          exam_type |-> IF resp.exam_type = "missing" THEN "type1" ELSE resp.exam_type]
    ELSE [do |-> "raise", exam_type |-> "none"]

\* Step 2.
RunClassify(resp) ==
    /\ run.pc = "Classifying"
    /\ LET h == ClassifyHandle(resp)
           next == IF h.do = "return"
                   THEN [Advance(run, "Classifying", "Uploading") EXCEPT
                            !.exam_type = h.exam_type,
                            !.usage_steps = Append(@, "classify_exam_type")]
                   ELSE Abort(run, "Classifying", resp.kind)
       IN \* outcome records what the classifier received
          run' = [next EXCEPT !.outcome["Classifying"] = resp.kind]
    /\ UNCHANGED <<fanVars, listVars, gen, box, ledger, fm, fnVars>>

\* Step 3: the two files.create calls.
RunUpload(up) ==
    /\ run.pc = "Uploading"
    /\ run' = IF up = "ok" THEN Advance(run, "Uploading", "Listing")
              ELSE Abort(run, "Uploading", up)
    /\ UNCHANGED <<fanVars, listVars, gen, box, ledger, fm, fnVars>>

\* Step 4, first half: list_all_questions_direct inside
\* list_all_questions_with_pages_direct returns a collection or raises.
RunList(res) ==
    /\ run.pc = "Listing"
    /\ run' = IF res = "ok" THEN Advance(run, "Listing", "Annotating")
              ELSE Abort(run, "Listing", res)
    /\ UNCHANGED <<fanVars, listVars, gen, box, ledger, fm, fnVars>>

\* Step 4, second half: both annotation branches have finished; one failed
\* branch raises RuntimeError, otherwise the merged collection of n items
\* comes back and its usage is recorded.
RunAnnotate(paper, solution, n) ==
    /\ run.pc = "Annotating"
    /\ run' = IF paper = "ok" /\ solution = "ok"
              THEN [Advance(run, "Annotating", "FanningOut") EXCEPT
                       !.usage_steps = Append(@, "list_all_questions"),
                       !.tasks = [i \in 1..n |-> "new"]]
              ELSE Abort(run, "Annotating", "RuntimeError")
    /\ UNCHANGED <<fanVars, listVars, gen, box, ledger, fm, fnVars>>

\* Step 5 up to asyncio.gather: the question list is saved, the marked PDFs
\* are written (io) and uploaded, the paper first (paper_up) and then the
\* solution (solution_up); paper_marked_file_id and solution_marked_file_id
\* are assigned after both uploads (marked_ids), then one task per item is
\* created.  marked_uploaded holds the marked documents now on the service.
RunLaunch(io, paper_up, solution_up) ==
    /\ run.pc = "FanningOut"
    /\ ~run.launched
    /\ run' = IF io # "ok"
              THEN [Abort(run, "FanningOut", io) EXCEPT !.marked = TRUE]
              ELSE IF paper_up # "ok"
              THEN [Abort(run, "FanningOut", paper_up) EXCEPT !.marked = TRUE]
              ELSE IF solution_up # "ok"
              THEN [Abort(run, "FanningOut", solution_up) EXCEPT
                       !.marked = TRUE,
                       !.marked_uploaded = {"paper"}]
              ELSE [run EXCEPT !.marked = TRUE,
                               !.marked_uploaded = {"paper", "solution"},
                               !.marked_ids = TRUE,
                               !.launched = TRUE,
                               !.tasks = [i \in DOMAIN run.tasks |-> "running"]]
    /\ UNCHANGED <<fanVars, listVars, gen, box, ledger, fm, fnVars>>

\* One item task resolves: a success entry, a failure entry or an exception.
RunItem(i, res) ==
    /\ run.pc = "FanningOut"
    /\ run.launched
    /\ i \in DOMAIN run.tasks
    /\ run.tasks[i] = "running"
    /\ run' = [run EXCEPT !.tasks[i] = res]
    /\ UNCHANGED <<fanVars, listVars, gen, box, ledger, fm, fnVars>>

\* Mutant: gather returns as soon as one task has resolved.
TasksResolved_Any(r) ==
    \E i \in DOMAIN r.tasks : r.tasks[i] # "running"

\* asyncio.gather(*tasks, return_exceptions=True) returns.
TasksResolved(r) ==
    \A i \in DOMAIN r.tasks : r.tasks[i] # "running"

RunGather ==
    /\ run.pc = "FanningOut"
    /\ run.launched
    /\ TasksResolved(run)
    /\ run' = Advance(run, "FanningOut", "Assembling")
    /\ UNCHANGED <<fanVars, listVars, gen, box, ledger, fm, fnVars>>

\* The value of `return result`.
RunResult(r) ==
    [exam_type |-> r.exam_type,
     questions_results |-> r.tasks,
     api_usage |-> r.usage_steps]

\* The result loop, the average over total_questions (line 739), the summary
\* and the writing of complete_result.json.
RunAssemble(io) ==
    /\ run.pc = "Assembling"
    /\ run' = IF Len(run.tasks) = 0 THEN Abort(run, "Assembling", "ZeroDivisionError")
              ELSE IF io # "ok" THEN Abort(run, "Assembling", io)
              ELSE [run EXCEPT !.pc = "Finally",
                               !.outcome["Assembling"] = "ok",
                               !.pending = [return |-> RunResult(run)]]
    /\ UNCHANGED <<fanVars, listVars, gen, box, ledger, fm, fnVars>>

\* The delete requests of the finally block: none unless
\* paper_marked_file_id is set; the two deletes share one try, so the second
\* is made only when the first (del) did not raise.
DeletesIssued(r, del) ==
    IF ~r.marked_ids THEN {}
    ELSE IF del = "ok" THEN {"paper", "solution"}
    ELSE {"paper"}

\* The finally block: the deletions on the service are guarded, the unlink
\* of the marked PDFs is not.  Then the pending return or exception goes on.
RunFinally(del, unlink) ==
    /\ run.pc = "Finally"
    /\ LET r == [run EXCEPT !.delete_issued = DeletesIssued(run, del)]
       IN run' = IF r.marked /\ unlink # "ok"
                 THEN [r EXCEPT !.pc = "Failed",
                                !.raised = [at |-> "Finally", exc |-> unlink]]
                 ELSE IF "return" \in DOMAIN r.pending
                 THEN [r EXCEPT !.pc = "Done",
                                !.started = Append(@, "Done"),
                                !.out = r.pending.return]
                 ELSE [r EXCEPT !.pc = "Failed", !.raised = r.pending.raise]
    /\ UNCHANGED <<fanVars, listVars, gen, box, ledger, fm, fnVars>>

-----------------------------------------------------------------------------
(* FileManager (src/services/file_manager.py).                             *)

CacheKeys == {"paper", "solution"}

\* Path arguments: a file that exists and one that does not.
FilePaths == {"paper.pdf", "dummy.pdf"}
PathExists(path) == path = "paper.pdf"

\* A manager whose cache file is absent or holds {}: load_cache gives an
\* empty dictionary.  `cache` is the content of the cache file, `creates`
\* and `saves` count the calls of client.files.create and of save_cache,
\* `last` is the latest call with its result.  File ids are 1, 2, ...; 0
\* stands for no entry and for no value returned.
IdleFm ==
    [cache |-> [k \in CacheKeys |-> 0],
     creates |-> 0,
     saves |-> 0,
     calls |-> 0,
     last |-> None]

\* Mutant: the cached id is never used.
CacheHit_Never(cache, cache_key, retrieve) == FALSE

\* `cache_key in cache` and client.files.retrieve(file_id) does not raise.
CacheHit(cache, cache_key, retrieve) ==
    cache[cache_key] # 0 /\ retrieve = "ok"

\* Mutant: the dictionary is never written back.
CacheFile_Never(before, loaded, saved) == before

\* Mutant: the dictionary is written back on every way out.
CacheFile_Always(before, loaded, saved) == loaded

\* The cache file after a call: only save_cache writes it; cache.pop and
\* cache[cache_key] = file_id act on the dictionary load_cache returned.
CacheFile(before, loaded, saved) == IF saved THEN loaded ELSE before

\* upload_if_needed(path, cache_key); retrieve and create are what the two
\* client calls do if they are made.  A new file gets a new id.
UploadIfNeeded(path, cache_key, retrieve, create) ==
    /\ fm.calls < MaxCalls
    /\ LET cache == fm.cache
           cached == cache[cache_key]
           call == [op |-> "upload_if_needed", path |-> path, cache_key |-> cache_key,
                    cached |-> cached,
                    retrieve |-> IF cached = 0 THEN "skipped" ELSE retrieve,
                    ret |-> 0, exc |-> "none"]
           file_id == fm.creates + 1
           \* cache.pop(cache_key, None) after a failed retrieve
           popped == [cache EXCEPT ![cache_key] = 0]
       IN fm' =
            IF CacheHit(cache, cache_key, retrieve)
            THEN [fm EXCEPT !.calls = @ + 1,
                            !.cache = CacheFile(fm.cache, cache, FALSE),
                            !.last = [call EXCEPT !.ret = cached]]
            ELSE IF ~PathExists(path)
            THEN [fm EXCEPT !.calls = @ + 1,
                            !.cache = CacheFile(fm.cache, popped, FALSE),
                            !.last = [call EXCEPT !.exc = "FileNotFoundError"]]
            ELSE IF create # "ok"
            THEN [fm EXCEPT !.calls = @ + 1,
                            !.creates = @ + 1,
                            !.cache = CacheFile(fm.cache, popped, FALSE),
                            !.last = [call EXCEPT !.exc = create]]
            ELSE [fm EXCEPT !.calls = @ + 1,
                            !.creates = @ + 1,
                            !.cache = CacheFile(fm.cache,
                                                [popped EXCEPT ![cache_key] = file_id],
                                                TRUE),
                            !.saves = @ + 1,
                            !.last = [call EXCEPT !.ret = file_id]]
    /\ UNCHANGED <<fanVars, listVars, gen, box, ledger, run, fnVars>>

\* clear_cache: save_cache({}).
ClearCache ==
    /\ fm.calls < MaxCalls
    /\ fm' = [fm EXCEPT !.calls = @ + 1,
                        !.cache = [k \in CacheKeys |-> 0],
                        !.saves = @ + 1,
                        !.last = [op |-> "clear_cache"]]
    /\ UNCHANGED <<fanVars, listVars, gen, box, ledger, run, fnVars>>

-----------------------------------------------------------------------------
(* validate_question_list_format as a function of its arguments.           *)

L_1a_nl == <<"1", "(", "a", ")", "\n">>
L_a == <<"(", "a", ")">>

\* Labels a list can hold: "1(a)", "Q2", "1(a)" with a final newline, "(a)".
ValLabels == {L_1a, L_Q2, L_1a_nl, L_a}

\* The questions of a QuestionList holding these labels.
QuestionsOf(labels) ==
    [k \in DOMAIN labels |-> [question_index |-> k, question_label |-> labels[k]]]

IdleVal == [pc |-> "idle", labels |-> <<>>, exam_type |-> "none", is_valid |-> FALSE]

\* The call returns.
Validate ==
    /\ val.pc = "called"
    /\ val' = [val EXCEPT
                  !.pc = "returned",
                  !.is_valid = validate_question_list_format(QuestionsOf(val.labels),
                                                             val.exam_type)]
    /\ UNCHANGED <<fanVars, listVars, gen, box, ledger, run, fm, art>>

-----------------------------------------------------------------------------
(* The files written by the item tasks of one batch (workflow.py 522-641): *)
(* extracted_images/question_<question_index>/ and                         *)
(* question_<safe_label>.json, both under the one output_dir.              *)

L_1a_plain == <<"1", "a">>
ArtLabels == {L_1a, L_1a_plain, L_Q2}

\* question_label.replace('(', '').replace(')', '').replace(' ', '_')
RECURSIVE safe_label(_)
safe_label(label) ==
    IF label = <<>> THEN <<>>
    ELSE LET c == Head(label)
             rest == safe_label(Tail(label))
         IN IF c \in {"(", ")"} THEN rest
            ELSE IF c = " " THEN <<"_">> \o rest
            ELSE <<c>> \o rest

\* The collections a batch can be given: question_index and question_label
\* are what the listing response said, neither is checked for duplicates.
ArtCollections ==
    UNION {[1..n -> [question_index : 1..MaxItems, question_label : ArtLabels]] :
              n \in 0..MaxItems}

\* json and dirs map a file name to the task that wrote it last.
IdleArt == [items |-> <<>>, task |-> <<>>, json |-> {}, dirs |-> {}]

\* open(path, 'w') and mkdir(exist_ok=True) with files written into it: a
\* file of that name is replaced.
WriteFile(files, name, writer) ==
    {f \in files : f.name # name} \cup {[name |-> name, writer |-> writer]}

\* The task of item i comes back from its generation calls and runs, with no
\* await, to its return: on success it writes its images directory and its
\* JSON file.
ArtTaskFinish(i, res) ==
    /\ i \in DOMAIN art.task
    /\ art.task[i] = "running"
    /\ art' = IF res = "ok"
              THEN [art EXCEPT
                       !.task[i] = "ok",
                       !.dirs = WriteFile(@, art.items[i].question_index, i),
                       !.json = WriteFile(@, safe_label(art.items[i].question_label), i)]
              ELSE [art EXCEPT !.task[i] = "failed"]
    /\ UNCHANGED <<fanVars, listVars, gen, box, ledger, run, fm, val>>

-----------------------------------------------------------------------------
\* The components a specification does not run stay as constructed.
SvcIdle ==
    /\ ledger = IdleLedger
    /\ run = IdleRun
    /\ fm = IdleFm
    /\ val = IdleVal
    /\ art = IdleArt

-----------------------------------------------------------------------------
(* Specification of the fan-out stage: Step 5 of run_complete_workflow, *)
(* entered with a merged collection of 0..MaxItems items.               *)

Collection(n) ==
    [k \in 1..n |-> [question_index |-> k, question_label |-> PoolLabel(k)]]

InitFan ==
    /\ stage = "FanningOut"
    /\ ctrl_error = NoError
    /\ \E n \in 0..MaxItems : question_list = Collection(n)
    /\ task = [i \in DOMAIN question_list |-> NewTask]
    /\ results = <<>>
    /\ all_questions_results = <<>>
    /\ lst = IdleLst
    /\ wp = IdleWp
    /\ br = [b \in Branches |-> IdleBranch]
    /\ gen = IdleGen
    /\ box = IdleBox
    /\ SvcIdle

NextFan ==
    \/ \E i \in Items : StartItem(i)
    \/ \E i \in Items : QuestionStart(i)
    \/ \E i \in Items : \E resp \in QuestionResponses : QuestionResponse(i, resp)
    \/ \E i \in Items : AnswerStart(i)
    \/ \E i \in Items : \E resp \in AnswerResponses : AnswerResponse(i, resp)
    \/ \E i \in Items : \E io \in IoOutcomes : Phase1Join(i, io)
    \/ \E i \in Items : \E sub \in SubtopicOutcomes : \E io \in IoOutcomes :
            LabelSubtopics(i, sub, io)
    \/ \E i \in Items : \E resp \in LabelResponses : \E io \in IoOutcomes :
            LabelResponse(i, resp, io)
    \/ GatherReturn
    \/ \E io \in IoOutcomes : Assemble(io)
    \/ Finally

SpecFan == InitFan /\ [][NextFan]_vars

-----------------------------------------------------------------------------
(* Specification of the listing stage: one call of                        *)
(* list_all_questions_with_pages_direct, for any exam_type string.        *)

InitList ==
    /\ stage = "Listing"
    /\ ctrl_error = NoError
    /\ question_list = <<>>
    /\ task = <<>>
    /\ results = <<>>
    /\ all_questions_results = <<>>
    /\ lst = IdleLst
    /\ \E exam_type \in ExamTypes :
          wp = [IdleWp EXCEPT !.pc = "uploading", !.exam_type = exam_type]
    /\ br = [b \in Branches |-> IdleBranch]
    /\ gen = IdleGen
    /\ box = IdleBox
    /\ SvcIdle

NextList ==
    \/ \E up \in {"ok", "exc"} : WpUpload(up)
    \/ \E resp \in ListResponses(lst.exam_type) : ListResponse(resp)
    \/ \E del \in {"ok", "exc"} : WpCleanup(del)
    \/ \E b \in Branches : \E up \in {"ok", "exc"} : BranchStart(b, up)
    \/ \E b \in Branches : \E resp \in BranchResponses(b) : BranchResponse(b, resp)
    \/ \E b \in Branches : \E del \in {"ok", "exc"} : BranchClose(b, del)
    \/ AnnotateJoin

SpecList == InitList /\ [][NextList]_vars

-----------------------------------------------------------------------------
(* Specification of Phase 1 of one item.                                   *)

InitGen ==
    /\ stage = "Generating"
    /\ ctrl_error = NoError
    /\ question_list = <<>>
    /\ task = <<>>
    /\ results = <<>>
    /\ all_questions_results = <<>>
    /\ lst = IdleLst
    /\ wp = IdleWp
    /\ br = [b \in Branches |-> IdleBranch]
    /\ gen = [IdleGen EXCEPT !.item = "phase1"]
    /\ box = IdleBox
    /\ SvcIdle

NextGen ==
    \/ \E agent \in Agents : GenStart(agent)
    \/ \E agent \in Agents : \E resp \in AgentResponses(agent) : GenResponse(agent, resp)
    \/ GenJoin

SpecGen == InitGen /\ [][NextGen]_vars

\* Every client.aquery either returns or raises, and the event loop runs every
\* coroutine that can run.
SpecGenFair == SpecGen /\ WF_vars(NextGen)

-----------------------------------------------------------------------------
(* Specification of one call of correct_image_bbox.                        *)

InitBox ==
    /\ stage = "Refining"
    /\ ctrl_error = NoError
    /\ question_list = <<>>
    /\ task = <<>>
    /\ results = <<>>
    /\ all_questions_results = <<>>
    /\ lst = IdleLst
    /\ wp = IdleWp
    /\ br = [b \in Branches |-> IdleBranch]
    /\ gen = IdleGen
    /\ \E max_iterations \in 0..MaxIterations, original_bbox \in OriginalRegions,
          page \in PageSizes, raster \in RasterSizes :
          box = [IdleBox EXCEPT
                    !.pc = "called",
                    !.max_iterations = max_iterations,
                    !.page = page,
                    !.raster = raster,
                    !.original_bbox = original_bbox,
                    !.current_bbox = original_bbox,
                    !.all_image_paths = <<0>>,
                    !.cut = <<OriginalCrop(original_bbox)>>]
    /\ SvcIdle

NextBox ==
    \/ \E setup \in IoOutcomes, read \in IoOutcomes : BoxSetup(setup, read)
    \/ \E resp \in ReviewResponses, crop \in IoOutcomes, read \in IoOutcomes :
          BoxResponse(resp, crop, read)

SpecBox == InitBox /\ [][NextBox]_vars

\* Every review request returns or raises.
SpecBoxFair == SpecBox /\ WF_vars(NextBox)

-----------------------------------------------------------------------------
(* Specification of one UsageTracker shared by the tasks of one event      *)
(* loop, each with up to MaxAdds records to add.                           *)

InitLedger ==
    /\ stage = "Tracking"
    /\ ctrl_error = NoError
    /\ question_list = <<>>
    /\ task = <<>>
    /\ results = <<>>
    /\ all_questions_results = <<>>
    /\ lst = IdleLst
    /\ wp = IdleWp
    /\ br = [b \in Branches |-> IdleBranch]
    /\ gen = IdleGen
    /\ box = IdleBox
    /\ \E todo \in [Tasks -> 0..MaxAdds] : ledger = [IdleLedger EXCEPT !.todo = todo]
    /\ run = IdleRun
    /\ fm = IdleFm
    /\ val = IdleVal
    /\ art = IdleArt

NextLedger ==
    \/ \E t \in Tasks, step_name \in StepNames, in \in StepInputs :
          AddStepUsage(t, step_name, in)
    \/ GetSummary

SpecLedger == InitLedger /\ [][NextLedger]_vars

-----------------------------------------------------------------------------
(* Specification of one FileManager used for up to MaxCalls calls.         *)

InitFm ==
    /\ stage = "Caching"
    /\ ctrl_error = NoError
    /\ question_list = <<>>
    /\ task = <<>>
    /\ results = <<>>
    /\ all_questions_results = <<>>
    /\ lst = IdleLst
    /\ wp = IdleWp
    /\ br = [b \in Branches |-> IdleBranch]
    /\ gen = IdleGen
    /\ box = IdleBox
    /\ ledger = IdleLedger
    /\ run = IdleRun
    /\ fm = IdleFm
    /\ val = IdleVal
    /\ art = IdleArt

NextFm ==
    \/ \E path \in FilePaths, cache_key \in CacheKeys,
          retrieve \in {"ok", "exc"}, create \in {"ok", "exc"} :
          UploadIfNeeded(path, cache_key, retrieve, create)
    \/ ClearCache

SpecFm == InitFm /\ [][NextFm]_vars

-----------------------------------------------------------------------------
(* Specification of validate_question_list_format over every list of up to *)
(* MaxLabels labels and every tag.                                         *)

InitVal ==
    /\ stage = "Validating"
    /\ ctrl_error = NoError
    /\ question_list = <<>>
    /\ task = <<>>
    /\ results = <<>>
    /\ all_questions_results = <<>>
    /\ lst = IdleLst
    /\ wp = IdleWp
    /\ br = [b \in Branches |-> IdleBranch]
    /\ gen = IdleGen
    /\ box = IdleBox
    /\ ledger = IdleLedger
    /\ run = IdleRun
    /\ fm = IdleFm
    /\ \E labels \in SeqsUpTo(ValLabels, MaxLabels), exam_type \in ExamTypes :
          val = [IdleVal EXCEPT !.pc = "called", !.labels = labels,
                                !.exam_type = exam_type]
    /\ art = IdleArt

NextVal == Validate

SpecVal == InitVal /\ [][NextVal]_vars

-----------------------------------------------------------------------------
(* Specification of the item tasks of one batch writing their files.       *)

InitArt ==
    /\ stage = "Writing"
    /\ ctrl_error = NoError
    /\ question_list = <<>>
    /\ task = <<>>
    /\ results = <<>>
    /\ all_questions_results = <<>>
    /\ lst = IdleLst
    /\ wp = IdleWp
    /\ br = [b \in Branches |-> IdleBranch]
    /\ gen = IdleGen
    /\ box = IdleBox
    /\ ledger = IdleLedger
    /\ run = IdleRun
    /\ fm = IdleFm
    /\ val = IdleVal
    /\ \E items \in ArtCollections :
          art = [IdleArt EXCEPT !.items = items,
                                !.task = [i \in DOMAIN items |-> "running"]]

NextArt == \E i \in 1..MaxItems, res \in {"ok", "failed"} : ArtTaskFinish(i, res)

SpecArt == InitArt /\ [][NextArt]_vars

-----------------------------------------------------------------------------
(* Specification of one run of run_complete_workflow.                      *)

InitRun ==
    /\ stage = "Running"
    /\ ctrl_error = NoError
    /\ question_list = <<>>
    /\ task = <<>>
    /\ results = <<>>
    /\ all_questions_results = <<>>
    /\ lst = IdleLst
    /\ wp = IdleWp
    /\ br = [b \in Branches |-> IdleBranch]
    /\ gen = IdleGen
    /\ box = IdleBox
    /\ ledger = IdleLedger
    /\ run = [IdleRun EXCEPT !.pc = "Preprocessing", !.started = <<"Preprocessing">>]
    /\ fm = IdleFm
    /\ val = IdleVal
    /\ art = IdleArt

NextRun ==
    \/ \E io \in IoOutcomes : RunPreprocess(io)
    \/ \E resp \in ClassifierResponses : RunClassify(resp)
    \/ \E up \in {"ok", "exc"} : RunUpload(up)
    \/ \E res \in {"ok", "exc", "ValidationError"} : RunList(res)
    \/ \E paper \in {"ok", "err"}, solution \in {"ok", "err"}, n \in 0..MaxItems :
          RunAnnotate(paper, solution, n)
    \/ \E io \in IoOutcomes, paper_up \in {"ok", "exc"}, solution_up \in {"ok", "exc"} :
          RunLaunch(io, paper_up, solution_up)
    \/ \E i \in 1..MaxItems, res \in {"ok", "failed", "exc"} : RunItem(i, res)
    \/ RunGather
    \/ \E io \in IoOutcomes : RunAssemble(io)
    \/ \E del \in {"ok", "exc"}, unlink \in IoOutcomes : RunFinally(del, unlink)

SpecRun == InitRun /\ [][NextRun]_vars

\* Every awaited call returns or raises, and the event loop runs every task
\* that can run.
SpecRunFair == SpecRun /\ WF_vars(NextRun)

-----------------------------------------------------------------------------
(* Claims about the fan-out *)

Assembled == stage \in {"Finally", "Done", "Failed"}

HasError(entry) == "error" \in DOMAIN entry

\* C1: whatever fails inside the item tasks, every item resolves to exactly one
\* result with an explicit outcome (success flag; error entry or label entry),
\* and the assembled list holds exactly one entry per item, in item order,
\* none missing and none duplicated.
C1_EveryItemInAssembledResult ==
    /\ \A i \in Items : (task[i].pc = "done") <=> ~IsNone(task[i].result)
    /\ stage \in {"Assembling", "Finally", "Done", "Failed"} =>
          /\ DOMAIN results = DOMAIN question_list
          /\ \A k \in DOMAIN results :
                /\ results[k].success \in BOOLEAN
                /\ results[k].question_index = question_list[k].question_index
                /\ results[k].question_label = question_list[k].question_label
    /\ Assembled =>
          /\ DOMAIN all_questions_results = DOMAIN question_list
          /\ \A k \in DOMAIN all_questions_results :
                /\ all_questions_results[k].question_index
                        = question_list[k].question_index
                /\ all_questions_results[k].question_label
                        = question_list[k].question_label
                /\ HasError(all_questions_results[k]) <=> ~results[k].success
                /\ ~HasError(all_questions_results[k])
                        <=> "label" \in DOMAIN all_questions_results[k]

\* A completed run over two or more items, one failed and one not.
C1_Witness ==
    /\ stage = "Done"
    /\ Len(all_questions_results) >= 2
    /\ \E j, k \in DOMAIN all_questions_results :
          /\ HasError(all_questions_results[j])
          /\ ~HasError(all_questions_results[k])

ItemFails(i) ==
    /\ task[i].pc # "done"
    /\ task'[i].pc = "done"
    /\ ~task'[i].result.success

\* C2: an item's failure never fails the controller and never touches a
\* sibling: the step in which an item fails changes nothing but that item's
\* task, the controller leaves FanningOut only for Assembling and only once
\* the whole batch has resolved, no unresolved sibling is ever left without a
\* controller waiting for it, and no exception of an item is ever the
\* controller's.
C2_ItemFailureIsolated ==
    /\ [][\A i \in Items :
            ItemFails(i) =>
                /\ \A j \in Items \ {i} : task'[j] = task[j]
                /\ stage' = stage
                /\ ctrl_error' = ctrl_error]_vars
    /\ [][(stage = "FanningOut" /\ stage' # "FanningOut") =>
            (AllResolved /\ stage' = "Assembling")]_vars
    /\ [](ctrl_error.at # "item")
    /\ []((\E i \in Items : task[i].pc # "done") => stage = "FanningOut")

\* The controller is assembling after an item failed while its sibling did not.
C2_Witness ==
    /\ stage = "Assembling"
    /\ \E i, j \in Items :
          /\ ~results[i].success
          /\ results[j].success

LeavesPhase1(i) == task[i].pc = "phase1" /\ task'[i].pc # "phase1"

LabelInvoked(i) == task[i].lab.st = "idle" /\ task'[i].lab.st = "subtopics"

C4_Phase2AfterBothPhase1 ==
    \A i \in Items :
        task[i].pc = "phase2" =>
            /\ task[i].q.st = "ok"
            /\ task[i].a.st = "ok"
            /\ task[i].lab.st \in {"subtopics", "await"}
            /\ task[i].lab.args.question_latex = task[i].q.out.question_latex
            /\ task[i].lab.args.answer_latex = task[i].a.out.answer_latex
            /\ task[i].lab.args.existing_mark = task[i].a.out.marks

\* A Phase-2 call in flight with the markup of both Phase-1 calls, while in a
\* sibling the answer call has finished before the question call.
C4_Witness ==
    \E i, j \in Items :
        /\ task[i].lab.st = "await"
        /\ task[i].lab.args.question_latex = "q_tex_2"
        /\ task[i].lab.args.answer_latex = "a_tex_1"
        /\ task[j].a.st = "ok"
        /\ task[j].q.st = "await"

PartialSuccess(result) ==
    /\ result.success
    /\ IsNone(result.label)
    /\ ~IsNone(result.q_latex)
    /\ ~IsNone(result.a_latex)

\* C5 as claimed: an item whose Phase-1 calls succeeded and whose Phase-2 call
\* failed always resolves to a partial success (Phase-1 outputs kept, no
\* classification, not failed).
C5_Original ==
    \A i \in Items :
        (task[i].pc = "done" /\ task[i].lab.st = "err") =>
            PartialSuccess(task[i].result)

\* C5 amended: such an item resolves to a partial success, and is assembled
\* without an error entry and with an empty label, unless its own artifact
\* writing raised; the Phase-2 error itself is never the item's error.
C5_Phase2FailureIsPartialSuccess ==
    \A i \in Items :
        (task[i].pc = "done" /\ task[i].lab.st = "err") =>
            /\ \/ PartialSuccess(task[i].result)
               \/ /\ ~task[i].result.success
                  /\ task[i].result.error \in IoOutcomes \ {"ok"}
            /\ (Assembled /\ task[i].result.success) =>
                  /\ ~HasError(all_questions_results[i])
                  /\ IsNone(all_questions_results[i].label)

\* An item assembled as a partial success after its Phase-2 call failed.
C5_Witness ==
    /\ stage = "Done"
    /\ \E i \in Items :
          /\ task[i].lab.st = "err"
          /\ PartialSuccess(task[i].result)
          /\ ~HasError(all_questions_results[i])

-----------------------------------------------------------------------------
(* Claims about the listing stage *)

FirstCandidateInvalid ==
    /\ Len(lst.responses) >= 1
    /\ lst.responses[1].kind = "ok"
    /\ ~validate_question_list_format(lst.responses[1].cand.questions, lst.exam_type)

Reasks == {k \in DOMAIN lst.requests : k > 1}

\* C6: one listing request issues at most one re-ask, whatever candidates the
\* service returns: never more than two requests, never more than one of them
\* emphasized.
C6_AtMostOneReask ==
    /\ Cardinality(Reasks) <= 1
    /\ Cardinality({k \in DOMAIN lst.requests : lst.requests[k].emphasize}) <= 1

\* The re-ask has been made and its candidate fails validation again.
C6_Witness ==
    /\ lst.pc = "returned"
    /\ Len(lst.responses) = 2
    /\ ~validate_question_list_format(lst.responses[2].cand.questions, lst.exam_type)

\* C7: the first request is not emphasized; there is a re-ask exactly when the
\* first candidate failed validation, and it is the first request with
\* emphasize set; a first candidate that passes is returned without a re-ask.
C7_ReaskExactlyOnFirstInvalid ==
    /\ Len(lst.requests) >= 1 => ~lst.requests[1].emphasize
    /\ Reasks # {} <=> FirstCandidateInvalid
    /\ Len(lst.requests) >= 2 =>
          lst.requests[2] = [lst.requests[1] EXCEPT !.emphasize = TRUE]
    /\ (/\ Len(lst.responses) >= 1
        /\ lst.responses[1].kind = "ok"
        /\ ~FirstCandidateInvalid) =>
          /\ lst.pc = "returned"
          /\ lst.ret = lst.responses[1].cand
          /\ Len(lst.requests) = 1

\* The emphasized re-ask is in flight after an invalid first candidate.
C7_Witness ==
    /\ lst.pc = "await"
    /\ FirstCandidateInvalid
    /\ Len(lst.requests) = 2
    /\ lst.requests[2].emphasize

\* C8 as stated: once the first candidate has failed validation the listing
\* request never raises, and ends by returning a collection.
C8_Original ==
    FirstCandidateInvalid =>
        /\ lst.pc # "raised"
        /\ Len(lst.responses) = 2 => lst.pc = "returned"

\* C8: a validation failure by itself never raises and never loops: after an
\* invalid first candidate there is one re-ask; if its response parses into a
\* candidate, that candidate is returned whether or not it passes validation,
\* and the request raises only if the re-ask's own response is a failure.
C8_InvalidCandidateNeverRaises ==
    FirstCandidateInvalid =>
        /\ Len(lst.requests) = 2
        /\ Len(lst.responses) <= 2
        /\ Len(lst.responses) = 2 =>
              IF lst.responses[2].kind = "ok"
              THEN lst.pc = "returned" /\ lst.ret = lst.responses[2].cand
              ELSE lst.pc = "raised"

\* The retried candidate failed validation again and was returned.
C8_Witness ==
    /\ FirstCandidateInvalid
    /\ Len(lst.responses) = 2
    /\ lst.responses[2].kind = "ok"
    /\ ~validate_question_list_format(lst.responses[2].cand.questions, lst.exam_type)
    /\ lst.pc = "returned"
    /\ wp.pc = "annotating"

Flagged(ret) == "unverified" \in DOMAIN ret /\ ret.unverified

\* C9: the returned collection is flagged unverified exactly when it failed
\* validation, so the caller can tell the two cases apart from the value.
C9_UnverifiedFlag ==
    lst.pc = "returned" =>
        (Flagged(lst.ret) <=>
            ~validate_question_list_format(lst.ret.questions, lst.exam_type))

-----------------------------------------------------------------------------
(* Claims about the page annotator *)

\* C10: if either annotation branch fails, the call raises and no merged
\* collection is returned, not even one built from the branch that succeeded.
C10_NoPartialMerge ==
    /\ (BranchesFinished /\ \E b \in Branches : br[b].st = "err") =>
          wp.pc # "returned" /\ IsNone(wp.ret)
    /\ (wp.pc \in {"returned", "raised"} /\ \E b \in Branches : br[b].st = "err") =>
          wp.pc = "raised"
    /\ ~IsNone(wp.ret) => \A b \in Branches : br[b].st = "ok"

\* The paper branch succeeded, the solution branch failed, the call has raised.
C10_Witness ==
    /\ wp.pc = "raised"
    /\ wp.err = "RuntimeError"
    /\ br["paper"].st = "ok"
    /\ br["solution"].st = "err"

BranchFails(b) == br[b].st # "err" /\ br'[b].st = "err"

JoinPassed ==
    \/ wp.pc = "returned"
    \/ wp.pc = "raised" /\ wp.err \in {"RuntimeError", "ValidationError"}

\* C11: the two annotation branches have no imposed order and only a joint
\* barrier: the call goes past the gather (to the merge or to its error) only
\* when both branches have finished, and the step in which one branch fails
\* leaves the other branch and the caller exactly as they were.
C11_JointBarrierNoCancel ==
    /\ [](JoinPassed => \A b \in Branches : br[b].st \in {"ok", "err"})
    /\ [][(wp.pc = "annotating" /\ wp'.pc # "annotating") =>
            \A b \in Branches : br[b].st \in {"ok", "err"}]_vars
    /\ [][\A b \in Branches :
            BranchFails(b) =>
                /\ \A c \in Branches \ {b} : br'[c] = br[c]
                /\ wp' = wp]_vars

\* The solution branch has already failed, the paper branch, started before
\* or after it, has its response and is about to finish.
C11_Witness ==
    /\ wp.pc = "annotating"
    /\ br["solution"].st = "err"
    /\ br["paper"].st = "closing_ok"

\* The merge is at hand: both branches returned a page map.
BothBranchesOk == wp.pc = "annotating" /\ \A b \in Branches : br[b].st = "ok"

\* C12: the merged collection has exactly one entry per listed question, in
\* listing order with the same index and label; its page lists are those of
\* the two response maps, empty where the label is absent from a map; and a
\* merge whose every present page value is a list never fails, however many
\* labels are absent.
C12_MergeOneEntryPerItem ==
    /\ [](wp.pc = "returned" =>
            /\ wp.ret.total_questions = Len(lst.ret.questions)
            /\ DOMAIN wp.ret.questions = DOMAIN lst.ret.questions
            /\ \A k \in DOMAIN lst.ret.questions :
                  LET q == lst.ret.questions[k]
                      e == wp.ret.questions[k]
                  IN  /\ e.question_index = q.question_index
                      /\ e.question_label = q.question_label
                      /\ \A b \in Branches :
                            LET pages == IF b = "paper" THEN e.paper_pages
                                         ELSE e.solution_pages
                            IN  IF q.question_label \in DOMAIN br[b].map
                                THEN pages = br[b].map[q.question_label].pages
                                ELSE pages = <<>>)
    /\ [][(/\ BothBranchesOk
            /\ wp' # wp
            /\ \A b \in Branches : \A l \in DOMAIN br[b].map : ~IsNone(br[b].map[l]))
            => wp'.pc = "returned"]_vars

\* A merged collection of two questions, one absent from the paper map and
\* one absent from both maps.
C12_Witness ==
    /\ wp.pc = "returned"
    /\ Len(wp.ret.questions) = 2
    /\ wp.ret.questions[1].paper_pages = <<>>
    /\ wp.ret.questions[1].solution_pages # <<>>
    /\ wp.ret.questions[2].paper_pages = <<>>
    /\ wp.ret.questions[2].solution_pages = <<>>

-----------------------------------------------------------------------------
(* Claims about the Phase-1 retry loop *)

\* The k-th response of a call left an attempt: it answered loop index k - 1.
AttemptRemains(k) == k - 1 < max_retries - 1

Resubmitted(c, k) ==
    /\ Len(c.requests) >= k + 1
    /\ c.requests[k + 1] = Escalate(c.requests[k])

Exhausted(c) == c.st = "err" /\ Len(c.responses) = max_retries

\* C14: each Phase-1 call sends at most max_retries = 2 requests; it always
\* ends, with a parsed output or with an error; and an error, in particular
\* that of the last attempt, becomes the failure of the item, with no further
\* request.
C14_BoundedAttempts ==
    /\ [](\A agent \in Agents :
            LET c == gen.call[agent] IN
            /\ Len(c.requests) <= 2
            /\ Len(c.requests) <= max_retries
            /\ Len(c.responses) = max_retries => c.st \in {"ok", "err"}
            /\ c.st = "ok" => ~IsNone(c.out) /\ c.err = "none"
            /\ c.st = "err" => IsNone(c.out) /\ c.err # "none"
            /\ (gen.item # "phase1" /\ c.st = "err") => gen.item = "failed")
    /\ [](gen.item = "failed" =>
            \E agent \in Agents :
                gen.call[agent].st = "err" /\ gen.error = gen.call[agent].err)
    /\ [][\A agent \in Agents :
            gen.call[agent].st \in {"ok", "err"} =>
                gen'.call[agent] = gen.call[agent]]_vars
    /\ <>(gen.item \in {"failed", "phase2"})

\* The item has failed after the question call used up both attempts.
C14_Witness ==
    /\ gen.item = "failed"
    /\ Exhausted(gen.call["question"])
    /\ Len(gen.call["question"].requests) = 2

-----------------------------------------------------------------------------
(* Claims about transport failures in listing *)

TransportFailure(resp) == resp.kind \in {"empty", "badjson"}

\* C15: in listing, a response with an empty, truncated or malformed body is
\* retried with a larger allowed response size, at least once, and that retry
\* is not the validation re-ask: the request that follows the first such
\* failure allows more tokens and keeps the wording of the failed one.
C15_ListingTransportRetry ==
    \A k \in DOMAIN lst.responses :
        (TransportFailure(lst.responses[k])
            /\ \A j \in 1..(k - 1) : ~TransportFailure(lst.responses[j])) =>
                /\ Len(lst.requests) >= k + 1
                /\ lst.requests[k + 1].max_tokens > lst.requests[k].max_tokens
                /\ lst.requests[k + 1].emphasize = lst.requests[k].emphasize

-----------------------------------------------------------------------------
(* Claims about the refinement loop *)

HistoryFromOriginal(paths) == Len(paths) >= 1 /\ paths[1] = 0

\* C16 as stated: at most max_iterations review calls, and the call always
\* returns a region and a non-empty crop history that starts with the
\* original crop; it never ends otherwise.
C16_Original ==
    /\ box.calls <= box.max_iterations
    /\ box.pc # "raised"
    /\ (box.pc = "returned" => HistoryFromOriginal(box.ret.all_image_paths))

\* C16: at most max_iterations review calls for any sequence of reviews; once
\* the page has been measured and rendered the call always returns, with the
\* region it holds and a crop history that is non-empty and starts with the
\* original crop; it can raise only from that preparation, before any review.
C16_BoundedReviewsAlwaysReturns ==
    /\ [](box.calls <= box.max_iterations)
    /\ [](box.pc = "returned" =>
            /\ HistoryFromOriginal(box.ret.all_image_paths)
            /\ box.ret.bbox = box.current_bbox
            /\ box.ret.all_image_paths = box.all_image_paths)
    /\ [](box.pc = "raised" => (box.calls = 0 /\ box.verdict = "none"))
    /\ [][box.pc \in {"await", "returned"} => box'.pc # "raised"]_vars
    /\ <>(box.pc \in {"returned", "raised"})

\* The loop has used all of its max_iterations = 2 reviews and returned.
C16_Witness ==
    /\ box.pc = "returned"
    /\ box.exit = "Exhausted"
    /\ box.max_iterations = 2
    /\ box.calls = 2
    /\ Len(box.ret.all_image_paths) = 3

\* C17: the review that marks the crop correct ends the loop at once:
\* Converged, no further review call, and the call returns success with the
\* region that was current when the review was issued and the whole crop
\* history accumulated so far.
C17_ConvergedAtOnce ==
    /\ [](box.verdict = "correct" =>
            /\ box.pc = "returned"
            /\ box.exit = "Converged"
            /\ box.ret.success)
    /\ [][(box.pc = "await" /\ box'.verdict = "correct") =>
            /\ box'.pc = "returned"
            /\ box'.calls = box.calls
            /\ box'.ret.bbox = box.current_bbox
            /\ box'.ret.all_image_paths = box.all_image_paths
            /\ box'.cut = box.cut]_vars
    /\ [](box.exit = "Converged" <=> (box.pc = "returned" /\ box.ret.success))

\* Converged at the second review, after one correction.
C17_Witness ==
    /\ box.exit = "Converged"
    /\ box.calls = 2
    /\ box.ret.bbox = R_beyond
    /\ box.ret.all_image_paths = <<0, 1>>

\* The success component of the two other returns: line 268 and line 316.
ConvergedOutcome == TRUE
ExhaustedOutcome == FALSE

\* C18: a review that marks the crop incorrect and gives no corrected region
\* ends the loop at once, with no new crop and no further review, and the
\* outcome returned is neither the one of Converged nor the one of Exhausted.
C18_RejectedDistinguished ==
    box.verdict = "rejected" =>
        /\ box.pc = "returned"
        /\ box.exit = "Rejected"
        /\ box.ret.success # ConvergedOutcome
        /\ box.ret.success # ExhaustedOutcome

InRaster(rect, raster) ==
    /\ 0 <= rect[1] /\ rect[1] < rect[3] /\ rect[3] <= raster.width
    /\ 0 <= rect[2] /\ rect[2] < rect[4] /\ rect[4] <= raster.height

\* C19: whatever region the reviewer proposes and whatever the raster, every
\* pixel rectangle the loop crops lies within the raster and has positive
\* width and height.
C19_CropWithinRaster ==
    \A k \in DOMAIN box.cut :
        k > 1 => InRaster(box.cut[k].rect, box.raster)

\* On the 8 x 6 raster a crop was cut for a region inverted in y and one for
\* a region with negative coordinates.
C19_Witness ==
    /\ box.raster.width = 8
    /\ \E k \in DOMAIN box.cut : k > 1 /\ box.cut[k].region = R_invy
    /\ \E k \in DOMAIN box.cut : k > 1 /\ box.cut[k].region = R_neg

WellFormed(region) ==
    /\ Len(region) = 4
    /\ region[3] > region[1]
    /\ region[4] > region[2]

\* C20: after any correction the region the loop holds, and the one it
\* returns, has x2 > x1 and y2 > y1.
C20_RegionWellFormed ==
    /\ (box.verdict = "corrected" => WellFormed(box.current_bbox))
    /\ (box.pc = "returned" /\ Len(box.cut) > 1) => WellFormed(box.ret.bbox)

\* C21: non-convergence is never fatal: when max_iterations is used up, or a
\* review call raises or comes back with an empty or malformed body, the call
\* returns its region and crop history with success = False; no step taken
\* after a review request was sent ends in an exception.
C21_NonConvergenceNotFatal ==
    /\ [](box.verdict = "error" =>
            /\ box.pc = "returned"
            /\ ~box.ret.success
            /\ box.ret.bbox = box.current_bbox
            /\ HistoryFromOriginal(box.ret.all_image_paths))
    /\ [](box.exit \in {"Exhausted", "Error", "Rejected"} =>
            /\ box.pc = "returned"
            /\ ~box.ret.success
            /\ HistoryFromOriginal(box.ret.all_image_paths))
    /\ [](box.pc = "raised" => box.calls = 0)

\* The second review call failed after one correction, and the call returned.
C21_Witness ==
    /\ box.pc = "returned"
    /\ box.verdict = "error"
    /\ box.calls = 2
    /\ box.max_iterations = 2
    /\ Len(box.ret.all_image_paths) = 2

-----------------------------------------------------------------------------
(* Claims about the usage tracker.                                         *)

RECURSIVE SumAdded(_)
SumAdded(added) ==
    IF added = <<>> THEN ZeroUsage
    ELSE LET rest == SumAdded(SubSeq(added, 1, Len(added) - 1))
             step == added[Len(added)].step
         IN [requests |-> rest.requests + step.requests,
             input_tokens |-> rest.input_tokens + step.input_tokens,
             output_tokens |-> rest.output_tokens + step.output_tokens]

\* C22: whatever the order in which the tasks' calls of add_step_usage run,
\* the running total (requests, input tokens, output tokens) is the
\* field-wise sum of all the records added so far.
C22_TotalIsSumOfAllRecords == ledger.total_usage = SumAdded(ledger.added)

\* Two tasks have added two records each, their calls alternating.
C22_Witness ==
    /\ Len(ledger.added) = 4
    /\ ledger.added[1].by = "t1" /\ ledger.added[2].by = "t2"
    /\ ledger.added[3].by = "t1" /\ ledger.added[4].by = "t2"
    /\ ledger.total_usage.input_tokens = 600

\* The per-step entries of a summary, summed field by field.
RECURSIVE SumSteps(_, _)
SumSteps(steps, names) ==
    IF names = {} THEN [requests |-> 0, input_tokens |-> 0, output_tokens |-> 0,
                        duration_seconds |-> 0]
    ELSE LET n == CHOOSE x \in names : TRUE
             rest == SumSteps(steps, names \ {n})
         IN IF IsNone(steps[n]) THEN rest
            ELSE [requests |-> rest.requests + steps[n].requests,
                  input_tokens |-> rest.input_tokens + steps[n].input_tokens,
                  output_tokens |-> rest.output_tokens + steps[n].output_tokens,
                  duration_seconds |-> rest.duration_seconds + steps[n].duration_seconds]

\* C23 (as stated): every record ever added is still in the per-step
\* breakdown of get_summary, and the grand total of that summary is the
\* field-wise sum of its per-step entries.
C23_AppendOnly ==
    LET summary == get_summary(ledger)
        sum == SumSteps(summary.steps, StepNames)
    IN /\ \A i \in 1..Len(ledger.added) :
              \E n \in StepNames : summary.steps[n] = to_dict(ledger.added[i].step)
       /\ summary.total.requests = sum.requests
       /\ summary.total.input_tokens = sum.input_tokens
       /\ summary.total.output_tokens = sum.output_tokens
       /\ summary.total.total_duration_seconds = sum.duration_seconds

\* C24: get_summary leaves the tracker as it was, and a second call made
\* with no record added in between returns the same summary.
C24_SummaryIsPure ==
    [][(~IsNone(ledger'.last) /\ ledger'.added = ledger.added) =>
          /\ ledger'.steps = ledger.steps
          /\ ledger'.total_usage = ledger.total_usage
          /\ ledger'.todo = ledger.todo
          /\ (~IsNone(ledger.last) /\ ledger.last.at = Len(ledger.added)) =>
                 ledger'.last.value = ledger.last.value]_vars

\* A summary taken after three records were added, one of them under a
\* name already used.
C24_Witness ==
    /\ ~IsNone(ledger.last)
    /\ ledger.last.at = 3
    /\ Len(ledger.added) = 3
    /\ ledger.last.value.total.requests = 3
    /\ \E n \in StepNames : IsNone(ledger.last.value.steps[n])

-----------------------------------------------------------------------------
(* Claims about the stage controller.                                      *)

\* Position of a stage in the order of the stages.
Rank(s) == CHOOSE k \in DOMAIN RunStages : RunStages[k] = s

\* C25: the stages start in the order Preprocessing, Classifying, Listing,
\* Annotating, FanningOut, Assembling, Done; a stage starts only when the one
\* before it has completed, Assembling only when every item task of the batch
\* has resolved; once started, a stage is never started again and no earlier
\* one is started after it.
C25_StagesInOrder ==
    /\ [](\A k \in DOMAIN run.started :
             /\ Rank(run.started[k]) = k
             /\ k > 1 => run.outcome[run.started[k - 1]] = "ok")
    /\ []("Assembling" \in {run.started[k] : k \in DOMAIN run.started} =>
             /\ run.launched
             /\ \A i \in DOMAIN run.tasks : run.tasks[i] \in {"ok", "failed", "exc"})
    /\ [][/\ Len(run'.started) >= Len(run.started)
          /\ SubSeq(run'.started, 1, Len(run.started)) = run.started]_vars

\* A run went through every stage with two items, one of which failed.
C25_Witness ==
    /\ run.pc = "Done"
    /\ run.started = RunStages
    /\ Len(run.tasks) = 2
    /\ run.tasks[1] = "failed"
    /\ run.tasks[2] = "ok"

\* The run is over: its value or its exception is with the caller.
RunEnded == run.pc \in {"Done", "Failed"}

\* C26 (as stated): every run that ends, an aborted one included, hands an
\* output to its caller; the output of a completed run carries the result of
\* every item and the usage summary.
C26_EveryRunYieldsOutput ==
    RunEnded =>
        /\ ~IsNone(run.out)
        /\ Len(run.out.questions_results) = Len(run.tasks)
        /\ run.out.api_usage = run.usage_steps

\* The stages whose failure the claim calls fatal.
FatalStages == {"Classifying", "Listing", "Annotating"}

StageFailed(s) == run.outcome[s] \notin {"none", "ok"}

\* C27: when classification, listing or an annotation branch fails, no later
\* stage is started, no item task is ever launched, no result is returned,
\* and the run ends with that failure raised to the caller.
C27_FatalStageAborts ==
    /\ [](\A s \in FatalStages : StageFailed(s) =>
             /\ run.started[Len(run.started)] = s
             /\ ~run.launched
             /\ IsNone(run.out)
             /\ run.pc \in {"Finally", "Failed"}
             /\ run.pc = "Failed" => run.raised = [at |-> s, exc |-> run.outcome[s]])
    /\ \A s \in FatalStages : StageFailed(s) ~> run.pc = "Failed"

\* The solution branch of the annotator failed and the caller got the error.
C27_Witness ==
    /\ run.pc = "Failed"
    /\ run.outcome["Annotating"] = "RuntimeError"
    /\ run.raised.at = "Annotating"
    /\ run.exam_type = "type1"

-----------------------------------------------------------------------------
(* Claims about the item collections.                                      *)

\* The collections produced so far: the one list_all_questions_direct
\* returned and the merged one.
CollectionsProduced ==
    (IF IsNone(lst.ret) THEN {} ELSE {lst.ret})
        \cup (IF IsNone(wp.ret) THEN {} ELSE {wp.ret})

\* C28 (as stated): every collection produced, the listing's and the merged
\* one, has total_questions = len(questions).
C28_TotalIsLength ==
    \A c \in CollectionsProduced : c.total_questions = Len(c.questions)

\* C29 (as stated): no two items of a produced collection carry the same
\* label.
C29_LabelsUnique ==
    \A c \in CollectionsProduced :
        \A j, k \in DOMAIN c.questions :
            c.questions[j].question_label = c.questions[k].question_label => j = k

-----------------------------------------------------------------------------
(* Claims about the file manager.                                          *)

\* C30: a call of upload_if_needed whose cache key has a cached file id that
\* the service still retrieves returns that id, makes no files.create call
\* and leaves the cache file as it was, whatever the path argument.
C30_CacheHitUploadsNothing ==
    [][(/\ fm'.calls = fm.calls + 1
        /\ fm'.last.op = "upload_if_needed"
        /\ fm.cache[fm'.last.cache_key] # 0
        /\ fm'.last.retrieve = "ok") =>
          /\ fm'.last.ret = fm.cache[fm'.last.cache_key]
          /\ fm'.last.exc = "none"
          /\ fm'.creates = fm.creates
          /\ fm'.saves = fm.saves
          /\ fm'.cache = fm.cache]_vars

\* A call with a path that does not exist returned the id cached by an
\* earlier upload.
C30_Witness ==
    /\ ~IsNone(fm.last)
    /\ fm.last.op = "upload_if_needed"
    /\ fm.last.path = "dummy.pdf"
    /\ fm.last.cached # 0
    /\ fm.last.retrieve = "ok"
    /\ fm.last.ret = fm.last.cached
    /\ fm.creates = 1

\* fm'.last is a call of upload_if_needed made in this step.
UploadCalled ==
    /\ fm'.calls = fm.calls + 1
    /\ fm'.last.op = "upload_if_needed"

\* C31: after a successful upload_if_needed(path, key) the cache file maps
\* key to the returned id; when the id cached before could not be retrieved,
\* exactly one files.create call was made and the entry is a new id.
C31_CacheHoldsReturnedId ==
    [][(UploadCalled /\ fm'.last.ret # 0) =>
          /\ fm'.cache[fm'.last.cache_key] = fm'.last.ret
          /\ \A k \in CacheKeys \ {fm'.last.cache_key} : fm'.cache[k] = fm.cache[k]
          /\ (fm'.last.retrieve = "exc") =>
                 /\ fm'.creates = fm.creates + 1
                 /\ fm'.last.ret # fm.cache[fm'.last.cache_key]]_vars

\* The cached id turned out stale and the file was uploaded again.
C31_Witness ==
    /\ ~IsNone(fm.last)
    /\ fm.last.op = "upload_if_needed"
    /\ fm.last.cached = 1
    /\ fm.last.retrieve = "exc"
    /\ fm.last.ret = 2
    /\ fm.cache[fm.last.cache_key] = 2

\* C40: when upload_if_needed fails, the path missing or files.create
\* raising, the cache file is what it was before the call, also when the
\* call had first found the cached id no longer retrievable.
C40_FailureLeavesCache ==
    [][(UploadCalled /\ fm'.last.exc # "none") =>
          /\ fm'.cache = fm.cache
          /\ fm'.saves = fm.saves
          /\ fm'.last.ret = 0]_vars

\* The cached id was stale, the path did not exist, and the stale entry is
\* still in the cache file.
C40_Witness ==
    /\ ~IsNone(fm.last)
    /\ fm.last.op = "upload_if_needed"
    /\ fm.last.cached # 0
    /\ fm.last.retrieve = "exc"
    /\ fm.last.exc = "FileNotFoundError"
    /\ fm.cache[fm.last.cache_key] = fm.last.cached

-----------------------------------------------------------------------------
(* Further claims about the refinement loop and the listing.               *)

\* C38 (as stated): whenever correct_image_bbox returns, the returned region
\* is the region the last crop of the returned history was cut from.
C38_RegionInStepWithHistory ==
    box.pc = "returned" =>
        /\ Len(box.cut) = Len(box.ret.all_image_paths)
        /\ box.ret.bbox = box.cut[Len(box.cut)].region

\* C36 (as stated): the usage list_all_questions_direct returns counts every
\* completion call the request issued: requests is the number of calls and
\* the token counts are the sums over the calls.
C36_UsageCountsEveryCall ==
    lst.pc = "returned" =>
        /\ lst.usage.requests = Len(lst.requests) * CallUsage.requests
        /\ lst.usage.input_tokens = Len(lst.requests) * CallUsage.input_tokens
        /\ lst.usage.output_tokens = Len(lst.requests) * CallUsage.output_tokens

-----------------------------------------------------------------------------
(* Further claims about the stage controller.                              *)

\* The item tasks that made their calls and returned a success entry.
SuccessfulItems == {i \in DOMAIN run.tasks : run.tasks[i] = "ok"}

\* C32 (as stated): the usage summary of a completed run holds, besides the
\* records of the classification and listing steps, a record for every item
\* task that made its calls.
C32_ItemUsageInLedger ==
    run.pc = "Done" =>
        Cardinality({k \in DOMAIN run.out.api_usage :
                        run.out.api_usage[k] \notin StepNames})
            >= Cardinality(SuccessfulItems)

\* C34 (as stated): the tag handed to the listing is type1 or type2.
C34_TagInEnumeration ==
    run.outcome["Uploading"] = "ok" => run.exam_type \in {"type1", "type2"}

\* C37 (as stated): a run whose merged collection is empty, and in which no
\* file operation failed, ends with a completed result whose item-result list
\* is empty.
C37_EmptyCollectionCompletes ==
    (/\ RunEnded
     /\ run.outcome["FanningOut"] = "ok"
     /\ Len(run.tasks) = 0
     /\ ~(run.pc = "Failed" /\ run.raised.exc = "OSError")) =>
        /\ run.pc = "Done"
        /\ run.out.questions_results = <<>>

\* C39 (as stated): when the run has ended, a delete was requested for every
\* marked document that had been uploaded.
C39_MarkedUploadsDeleted ==
    RunEnded => run.marked_uploaded \subseteq run.delete_issued

-----------------------------------------------------------------------------
(* Claims about the format validation.                                     *)

\* The labels of a list that match the code's pattern.
Matching(labels) == {k \in DOMAIN labels : Type1Match(labels[k])}

\* Digits followed by one parenthesised letter, and nothing else.
SubPartLabel(label) ==
    /\ Len(label) >= 4
    /\ label[Len(label)] = ")"
    /\ IsLetter(label[Len(label) - 1])
    /\ label[Len(label) - 2] = "("
    /\ \A k \in 1..(Len(label) - 3) : IsDigit(label[k])

-----------------------------------------------------------------------------
(* Claims about the files of the item tasks.                               *)

\* C35 (as stated): no item's files are written by a sibling: after a task
\* has written its JSON file and its images directory, they stay its own.
C35_ArtifactsOwnedByOneTask ==
    \A i \in DOMAIN art.task : art.task[i] = "ok" =>
        /\ [name |-> safe_label(art.items[i].question_label), writer |-> i] \in art.json
        /\ [name |-> art.items[i].question_index, writer |-> i] \in art.dirs

====
